---- MODULE Spec2Model ----
(***************************************************************************)
(* Ravyn: permission composition on route handlers, and the exception      *)
(* middleware.                                                             *)
(*                                                                         *)
(* Spec: one application under assembly and then under test: the handlers  *)
(* declared on it, the declarations that raised, the headers the test      *)
(* client sends, and the last response each route gave.                    *)
(*                                                                         *)
(* SpecExc: one RavynAPIException wrapper handling one call: its handler   *)
(* map and debug flag, the scope of the call, the exception the wrapped    *)
(* app raised, the messages sent and how the call ended.                   *)
(*                                                                         *)
(* SpecGraph: the introspection graph of one assembled application, built  *)
(* node by node and then exported.                                         *)
(*                                                                         *)
(* SpecAbort: one handler whose body calls abort, run statement by         *)
(* statement for one request.                                              *)
(*                                                                         *)
(* SpecStack: one AsyncExitStackMiddleware and two calls in flight through *)
(* it, interleaved at every await.                                         *)
(*                                                                         *)
(* SpecCommand: one run of the createapp command over the names given.     *)
(*                                                                         *)
(* SpecAuth: an application behind AuthenticationMiddleware and the        *)
(* requests a client sends to it.                                          *)
(*                                                                         *)
(* SpecCqrs: an application whose endpoints dispatch commands and ask      *)
(* queries on buses sharing a store.                                       *)
(***************************************************************************)
EXTENDS Integers, Sequences, FiniteSets, TLC

VARIABLES
    phase,          \* "assembly" while handlers are declared, then "serving"
    declared,       \* handlers whose declaration succeeded (routes of the app)
    raised,         \* declarations that raised: records [handler, exc]
    headers,        \* headers the client sends with every request
    responses,      \* handler -> last response received from its route
    was_reached,    \* handlers whose body has run
    self_exception_handlers,  \* RavynAPIException.exception_handlers
    self_debug,     \* RavynAPIException.debug
    asgi_scope,     \* the scope of the call: its type and _ravyn_route_boundary
    app_raised,     \* <<ex>>: the exception the wrapped app raised; <<>>: none
    lookup,         \* what get_exception_handler returned for it
    chosen,         \* the exception handler that was called
    sent,           \* the messages the wrapper sent, in order
    outcome,        \* "pending", "returned", or "raised": the exception escaped
    graph_app,      \* the application whose introspection graph is built
    graph_pc,       \* the part of the application the builder is at
    cursor,         \* position of the builder in the list it walks
    graph,          \* the graph built so far: its nodes and edges
    exported,       \* <<graph.to_dict()>> once exported, << >> before
    body,           \* the statements of the handler that is called
    handler_pc,     \* the statement the handler is at
    executed,       \* the positions of the statements executed, in order
    handler_raised, \* <<exc>>: the exception that left the handler; << >>: none
    handler_state,  \* "running", "raised", "returned" or "responded"
    client_response, \* the response the client received
    mw_debug,       \* AsyncExitStackMiddleware.debug
    call_pc,        \* call -> "idle", "app", "finally", "after" or "done"
    scopes,         \* call -> the scope of the call
    lazy_stack,     \* call -> <<the lazy stack the call created>>, << >> before
    exception,      \* call -> <<the exception the call caught>>, << >>: None
    lazy_stacks,    \* the _LazyAsyncExitStack objects, by identity
    exit_stacks,    \* the AsyncExitStack objects, by identity
    registered,     \* call -> the callbacks the wrapped app pushed, in order
    app_result,     \* call -> how the wrapped app ended
    aclose_calls,   \* call -> number of times lazy_stack.aclose() was awaited
    ran,            \* call -> the callbacks the cleanup of the call ran
    printed,        \* call -> the traceback of the exception was printed
    call_outcome,   \* call -> how the middleware ended
    names,          \* createapp: the app names given on the command line
    options,        \* createapp: the options passed to every directive.handle
    name_pc,        \* createapp: position in names of the name handled next
    handle_calls,   \* createapp: the calls of directive.handle and their ends
    messages,       \* createapp: the messages printed, in order
    command_state,  \* createapp: "idle", "running", "returned" or "raised"
    auth_app,       \* the application of the authentication tests under test
    auth_log,       \* the requests its client sent and what came of each
    cqrs_app,       \* the application of the CQRS tests under test
    store,          \* the dict the command and query handlers share
    cqrs_log        \* the requests its client sent and what came of each

permVars == <<phase, declared, raised, headers, responses, was_reached>>
excVars == <<self_exception_handlers, self_debug, asgi_scope, app_raised, lookup,
             chosen, sent, outcome>>
graphVars == <<graph_app, graph_pc, cursor, graph, exported>>
abortVars == <<body, handler_pc, executed, handler_raised, handler_state,
               client_response>>
stackVars == <<mw_debug, call_pc, scopes, lazy_stack, exception, lazy_stacks,
               exit_stacks, registered, app_result, aclose_calls, ran, printed,
               call_outcome>>
commandVars == <<names, options, name_pc, handle_calls, messages, command_state>>
authVars == <<auth_app, auth_log>>
cqrsVars == <<cqrs_app, store, cqrs_log>>
laterVars == <<stackVars, commandVars, authVars, cqrsVars>>
vars == <<permVars, excVars, graphVars, abortVars, laterVars>>

\* ------------------------------------------------------------------ bounds

\* Number of handlers one application under test declares.
MaxRoutes == 2

\* Number of handlers registered in one exception handler map.
MaxHandlers == 2

\* Number of middlewares an application lists, and number of its route entries.
MaxChain == 2
MaxEntries == 2

\* Number of statements in the body of a handler.
MaxStatements == 2

\* Number of callbacks the wrapped app pushes on the exit stack of one call.
MaxCallbacks == 2

\* Number of app names given to one createapp command.
MaxNames == 2

\* Number of requests a test client sends to one application.
MaxExchanges == 3

\* --------------------------------------------------------------- constants

None == "None"

HTTP_200_OK == 200
HTTP_201_CREATED == 201
HTTP_204_NO_CONTENT == 204
HTTP_303_SEE_OTHER == 303
HTTP_400_BAD_REQUEST == 400
HTTP_401_UNAUTHORIZED == 401
HTTP_403_FORBIDDEN == 403
HTTP_404_NOT_FOUND == 404
HTTP_418_IM_A_TEAPOT == 418
HTTP_500_INTERNAL_SERVER_ERROR == 500
WS_1008_POLICY_VIOLATION == 1008

\* Sequences of at most n elements of S.
RECURSIVE SeqsUpTo(_, _)
SeqsUpTo(S, n) ==
    IF n = 0 THEN {<< >>}
    ELSE SeqsUpTo(S, n - 1)
         \cup { Append(q, x) : q \in { r \in SeqsUpTo(S, n - 1) : Len(r) = n - 1 },
                               x \in S }

\* Whether the elements of a sequence differ from one another.
distinct(q) == \A i, j \in DOMAIN q : i # j => q[i] # q[j]

\* ------------------------------------------------------- request headers

HeaderNames == {"op1", "op2", "op3", "is_admin", "is_support", "allow_all"}

\* Headers sent by test_permissions_operations: op1/op2/op3, each absent,
\* empty or "test".
OpHeaders ==
    { [n \in HeaderNames |-> IF n \in DOMAIN f THEN f[n] ELSE None] :
        f \in [{"op1", "op2", "op3"} -> {None, "", "test"}] }

\* Headers sent by test_custom_permissions: is_admin/is_support, each absent,
\* "true" or "false".
AdminHeaders ==
    { [n \in HeaderNames |-> IF n \in DOMAIN f THEN f[n] ELSE None] :
        f \in [{"is_admin", "is_support"} -> {None, "true", "false"}] }

\* Headers sent by test_permissions_lilya: allow_all absent, "true" or "false".
AllowAllHeaders ==
    { [n \in HeaderNames |-> IF n \in DOMAIN f THEN f[n] ELSE None] :
        f \in [{"allow_all"} -> {None, "true", "false"}] }

RequestHeaders == OpHeaders \cup AdminHeaders \cup AllowAllHeaders

\* request.headers.get(name): the value or None.
headers_get(h, name) == h[name]

\* request.headers.get(name, default).
headers_get_default(h, name, default) == IF h[name] = None THEN default ELSE h[name]

\* Python truthiness of an Optional[str].
truthy(v) == v # None /\ v # ""

\* ---------------------------------------------------- permission classes

Op1Permission == "Op1Permission"
Op2Permission == "Op2Permission"
Op3Permission == "Op3Permission"
IsAdmin == "IsAdmin"
IsSupport == "IsSupport"
AsyncIsAdmin == "AsyncIsAdmin"
AsyncIsSupport == "AsyncIsSupport"
RavynPermission == "RavynPermission"
LilyaDeny == "LilyaDeny"

\* Mutant: every permission class is taken for a BasePermission.
bases_all_ravyn(cls) == "BasePermission"

\* The framework base class each permission class of the tests derives from.
bases(cls) ==
    CASE cls \in {Op1Permission, Op2Permission, Op3Permission} -> "BasePermission"
      [] cls \in {IsAdmin, IsSupport, AsyncIsAdmin, AsyncIsSupport} -> "BasePermission"
      [] cls = RavynPermission -> "BasePermission"
      [] cls = LilyaDeny -> "PermissionProtocol"

\* custom_header class attribute of the BaseTestPermission subclasses.
custom_header(cls) ==
    CASE cls = Op1Permission -> "op1"
      [] cls = Op2Permission -> "op2"
      [] cls = Op3Permission -> "op3"

\* BaseTestPermission.has_permission
BaseTestPermission_has_permission(cls, h) ==
    IF ~truthy(headers_get(h, custom_header(cls))) THEN FALSE ELSE TRUE

\* IsAdmin.has_permission
IsAdmin_has_permission(h) ==
    IF ~(headers_get_default(h, "is_admin", "false") = "true") THEN FALSE ELSE TRUE

\* IsSupport.has_permission
IsSupport_has_permission(h) ==
    IF ~(headers_get_default(h, "is_support", "false") = "true") THEN FALSE ELSE TRUE

\* AsyncIsAdmin.has_permission (the body of the coroutine)
AsyncIsAdmin_has_permission(h) ==
    IF ~(headers_get_default(h, "is_admin", "false") = "true") THEN FALSE ELSE TRUE

\* Mutant: the header of AsyncIsAdmin is checked (copied body).
AsyncIsSupport_has_permission_wrong_header(h) ==
    IF ~(headers_get_default(h, "is_admin", "false") = "true") THEN FALSE ELSE TRUE

\* AsyncIsSupport.has_permission (the body of the coroutine)
AsyncIsSupport_has_permission(h) ==
    IF ~(headers_get_default(h, "is_support", "false") = "true") THEN FALSE ELSE TRUE

\* RavynPermission.has_permission
RavynPermission_has_permission(h) ==
    IF ~truthy(headers_get(h, "allow_all")) THEN FALSE ELSE TRUE

\* Whether cls declares has_permission with "async def".
is_async_callable(cls) == cls \in {AsyncIsAdmin, AsyncIsSupport}

\* What the permission's own has_permission decides for a request with headers h.
has_permission(cls, h) ==
    CASE cls \in {Op1Permission, Op2Permission, Op3Permission} ->
            BaseTestPermission_has_permission(cls, h)
      [] cls = IsAdmin -> IsAdmin_has_permission(h)
      [] cls = IsSupport -> IsSupport_has_permission(h)
      [] cls = AsyncIsAdmin -> AsyncIsAdmin_has_permission(h)
      [] cls = AsyncIsSupport -> AsyncIsSupport_has_permission(h)
      [] cls = RavynPermission -> RavynPermission_has_permission(h)

\* Mutant: the permission lets the request through when allow_all is sent and
\* raises PermissionDenied otherwise (the body of LilyaPermDeny).
LilyaDeny_call_unless_allow_all(h) ==
    IF truthy(headers_get(h, "allow_all")) THEN "app" ELSE "PermissionDenied"

\* LilyaDeny.__call__: the exception it raises; "app": the wrapped app is awaited.
LilyaDeny_call(h) == "NotAuthorized"

\* Calling a Lilya permission wrapped around an app.
PermissionProtocol_call(cls, h) ==
    CASE cls = LilyaDeny -> LilyaDeny_call(h)

\* Calling permission.has_permission(request, controller): a plain function
\* returns its result, an "async def" returns a coroutine object that holds it.
call_has_permission(cls, h) ==
    [coroutine |-> is_async_callable(cls), result |-> has_permission(cls, h)]

\* await on a coroutine object yields its result.
await(c) == c.result

\* bool(x) of what a call returned: a coroutine object is truthy whatever it holds.
bool(c) == IF c.coroutine THEN TRUE ELSE c.result

\* ------------------------------------------------ composition of permissions

\* A permission class used as an operand.
Class(cls) == [node |-> "class", name |-> cls]

OperandHolder(operator_class, op1_class, op2_class) ==
    [node |-> "OperandHolder", operator_class |-> operator_class,
     op1_class |-> op1_class, op2_class |-> op2_class]

SingleOperand(operator_class, op1_class) ==
    [node |-> "SingleOperand", operator_class |-> operator_class,
     op1_class |-> op1_class]

\* A & B
__and__(a, b) == OperandHolder("AND", a, b)
\* A | B
__or__(a, b) == OperandHolder("OR", a, b)
\* A ^ B
__xor__(a, b) == OperandHolder("XOR", a, b)
\* A - B
__sub__(a, b) == OperandHolder("NOR", a, b)
\* ~A
__invert__(a) == SingleOperand("NOT", a)

AND_has_permission(op1, op2) == op1 /\ op2
OR_has_permission(op1, op2) == op1 \/ op2
XOR_has_permission(op1, op2) == op1 # op2
NOR_has_permission(op1, op2) == ~(op1 \/ op2)
NOT_has_permission(op1) == ~op1

\* The decision of one has_permission call, awaited when it is a coroutine.
resolve(cls, h) ==
    IF is_async_callable(cls) THEN await(call_has_permission(cls, h))
    ELSE bool(call_has_permission(cls, h))

\* Evaluation of a permission expression: the operand tree is instantiated and
\* evaluated bottom-up.
RECURSIVE evaluate(_, _)
evaluate(p, h) ==
    CASE p.node = "class" -> resolve(p.name, h)
      [] p.node = "SingleOperand" -> NOT_has_permission(evaluate(p.op1_class, h))
      [] p.node = "OperandHolder" ->
            LET op1 == evaluate(p.op1_class, h)
                op2 == evaluate(p.op2_class, h)
            IN  CASE p.operator_class = "AND" -> AND_has_permission(op1, op2)
                  [] p.operator_class = "OR" -> OR_has_permission(op1, op2)
                  [] p.operator_class = "XOR" -> XOR_has_permission(op1, op2)
                  [] p.operator_class = "NOR" -> NOR_has_permission(op1, op2)

\* The permission classes an expression is built from.
RECURSIVE classes_of(_)
classes_of(p) ==
    CASE p.node = "class" -> {p.name}
      [] p.node = "SingleOperand" -> classes_of(p.op1_class)
      [] p.node = "OperandHolder" -> classes_of(p.op1_class) \cup classes_of(p.op2_class)

\* ------------------------------------------------- handlers of the tests

\* permissions=[...] of each handler declared by the tests.
single_op_permissions == << Class(Op1Permission) >>
\* Mutant: "|" written where "&" is meant.
and_ops_permissions_or == << __or__(Class(Op1Permission), Class(Op2Permission)) >>
and_ops_permissions == << __and__(Class(Op1Permission), Class(Op2Permission)) >>
and_plus_extra_ops_permissions ==
    << __and__(Class(Op1Permission), Class(Op2Permission)), Class(Op3Permission) >>
\* Mutant: the parentheses are lost, "~" binds to the first operand only.
inverted_and_ops_permissions_unparenthesised ==
    << __and__(__invert__(Class(Op1Permission)), Class(Op2Permission)) >>
inverted_and_ops_permissions ==
    << __invert__(__and__(Class(Op1Permission), Class(Op2Permission))) >>
\* Mutant: "^" written where "|" is meant.
or_ops_permissions_xor == << __xor__(Class(Op1Permission), Class(Op2Permission)) >>
or_ops_permissions == << __or__(Class(Op1Permission), Class(Op2Permission)) >>
\* Mutant: "|" written where "^" is meant.
xor_ops_permissions_or == << __or__(Class(Op1Permission), Class(Op2Permission)) >>
xor_ops_permissions == << __xor__(Class(Op1Permission), Class(Op2Permission)) >>
\* Mutant: "A - B" read as a difference, A and not B.
nor_ops_permissions_difference ==
    << __and__(Class(Op1Permission), __invert__(Class(Op2Permission))) >>
nor_ops_permissions == << __sub__(Class(Op1Permission), Class(Op2Permission)) >>
\* Mutant: the extra entry is or-ed into the first one instead of listed.
or_plus_extra_ops_permissions_single_entry ==
    << __or__(__or__(Class(Op1Permission), Class(Op2Permission)), Class(Op3Permission)) >>
or_plus_extra_ops_permissions ==
    << __or__(Class(Op1Permission), Class(Op2Permission)), Class(Op3Permission) >>
\* Mutant: the parentheses are lost, "~" binds to the first operand only.
inverted_or_ops_permissions_unparenthesised ==
    << __or__(__invert__(Class(Op1Permission)), Class(Op2Permission)) >>
inverted_or_ops_permissions ==
    << __invert__(__or__(Class(Op1Permission), Class(Op2Permission))) >>
not_ops_permissions == << __invert__(Class(Op1Permission)) >>
not_plus_extra_ops_permissions ==
    << __invert__(Class(Op1Permission)), Class(Op2Permission) >>
MyController_permissions == << __or__(Class(IsAdmin), Class(IsSupport)) >>
MyControllerAsync_permissions == << __or__(Class(AsyncIsAdmin), Class(AsyncIsSupport)) >>
MyControllerMixed_permissions == << __or__(Class(IsAdmin), Class(AsyncIsSupport)) >>
mixed_same_level_permissions == << Class(RavynPermission), Class(LilyaDeny) >>
\* test_mix_permissions_with_native_ravyn: the handler and its Gateway.
mix_permissions_with_native_ravyn_permissions == << Class(LilyaDeny) >>
mix_permissions_with_native_ravyn_gateway_permissions == << Class(RavynPermission) >>
\* test_include_routes: the handler, the Include around its Gateway and the app.
include_routes_permissions == << >>
include_routes_include_permissions == << Class(LilyaDeny) >>
include_routes_app_permissions == << Class(RavynPermission) >>

Handlers ==
    {"single_op", "and_ops", "and_plus_extra_ops", "inverted_and_ops", "or_ops",
     "xor_ops", "nor_ops", "or_plus_extra_ops", "inverted_or_ops", "not_ops",
     "not_plus_extra_ops", "MyController", "MyControllerAsync", "MyControllerMixed",
     "mixed_same_level", "mix_permissions_with_native_ravyn", "include_routes"}

\* The permissions argument given to the handler decorator.
permissions(handler) ==
    CASE handler = "single_op" -> single_op_permissions
      [] handler = "and_ops" -> and_ops_permissions
      [] handler = "and_plus_extra_ops" -> and_plus_extra_ops_permissions
      [] handler = "inverted_and_ops" -> inverted_and_ops_permissions
      [] handler = "or_ops" -> or_ops_permissions
      [] handler = "xor_ops" -> xor_ops_permissions
      [] handler = "nor_ops" -> nor_ops_permissions
      [] handler = "or_plus_extra_ops" -> or_plus_extra_ops_permissions
      [] handler = "inverted_or_ops" -> inverted_or_ops_permissions
      [] handler = "not_ops" -> not_ops_permissions
      [] handler = "not_plus_extra_ops" -> not_plus_extra_ops_permissions
      [] handler = "MyController" -> MyController_permissions
      [] handler = "MyControllerAsync" -> MyControllerAsync_permissions
      [] handler = "MyControllerMixed" -> MyControllerMixed_permissions
      [] handler = "mixed_same_level" -> mixed_same_level_permissions
      [] handler = "mix_permissions_with_native_ravyn" ->
            mix_permissions_with_native_ravyn_permissions
      [] handler = "include_routes" -> include_routes_permissions

\* The permissions argument of the Gateway the handler is given to.
gateway_permissions(handler) ==
    CASE handler = "mix_permissions_with_native_ravyn" ->
            mix_permissions_with_native_ravyn_gateway_permissions
      [] OTHER -> << >>

\* The permissions argument of the Include the handler's Gateway is listed in.
include_permissions(handler) ==
    CASE handler = "include_routes" -> include_routes_include_permissions
      [] OTHER -> << >>

\* The permissions argument of create_client for the handler's application.
app_permissions(handler) ==
    CASE handler = "include_routes" -> include_routes_app_permissions
      [] OTHER -> << >>

\* What the body of the handler does: the tests' handlers return None, the one
\* of test_include_routes raises.
handler_body(handler) ==
    CASE handler = "include_routes" -> "raise"
      [] OTHER -> "return"

\* ------------------------------------------------------------ declaration

\* The base classes found among the entries of a permissions list.
RECURSIVE permission_kinds(_, _)
permission_kinds(perms, i) ==
    IF i > Len(perms) THEN {}
    ELSE { bases(c) : c \in classes_of(perms[i]) } \cup permission_kinds(perms, i + 1)

\* A list that holds both Ravyn (BasePermission) and Lilya (PermissionProtocol)
\* permissions.
is_mixed(perms) ==
    {"BasePermission", "PermissionProtocol"} \subseteq permission_kinds(perms, 1)

\* -------------------------------------------------------------- responses

NoResponse == [status_code |-> 0, detail |-> None]

\* The handlers of the tests return None: an empty 200 response.
handler_response == [status_code |-> HTTP_200_OK, detail |-> None]

\* ------------------------------------------------------------- exceptions

\* An exception object: its class, the classes of type(exc).__mro__ in order,
\* whether it is a lilya HTTPException (LilyaException) and whether it is a
\* ravyn HTTPException, the status_code, detail, headers and extra it carries
\* (None: it has none), the text of its constructor arguments, and for a
\* WebSocketException (ws) its close code.
\* PermissionDenied is raised when a permission rejects the request.
PermissionDenied ==
    [cls |-> "PermissionDenied",
     mro |-> <<"PermissionDenied", "HTTPException", "LilyaException", "Exception",
               "BaseException">>,
     lilya_http |-> TRUE, ravyn_http |-> TRUE,
     status_code |-> HTTP_403_FORBIDDEN,
     detail |-> "You do not have permission to perform this action.",
     headers |-> None, extra |-> None, args |-> "", ws |-> FALSE, code |-> None]

\* NotAuthorized is raised when the request carries no valid authorization.
NotAuthorized ==
    [cls |-> "NotAuthorized",
     mro |-> <<"NotAuthorized", "HTTPException", "LilyaException", "Exception",
               "BaseException">>,
     lilya_http |-> TRUE, ravyn_http |-> TRUE,
     status_code |-> HTTP_401_UNAUTHORIZED,
     detail |-> "Not Authorized.",
     headers |-> None, extra |-> None, args |-> "", ws |-> FALSE, code |-> None]

\* Exception("Should not be reached"), raised by the handler of test_include_routes.
ShouldNotBeReached ==
    [cls |-> "Exception", mro |-> <<"Exception", "BaseException">>,
     lilya_http |-> FALSE, ravyn_http |-> FALSE,
     status_code |-> None, detail |-> None,
     headers |-> None, extra |-> None, args |-> "'Should not be reached'",
     ws |-> FALSE, code |-> None]

\* abort(403, "Forbidden", headers={"X-Blocked": "true"}) raises a ravyn
\* HTTPException that carries headers.
Forbidden ==
    [cls |-> "HTTPException",
     mro |-> <<"HTTPException", "LilyaException", "Exception", "BaseException">>,
     lilya_http |-> TRUE, ravyn_http |-> TRUE,
     status_code |-> HTTP_403_FORBIDDEN, detail |-> "Forbidden",
     headers |-> "X-Blocked: true", extra |-> None, args |-> "",
     ws |-> FALSE, code |-> None]

\* A ravyn HTTPException with status 500 and an "extra" payload.
ImproperlyConfigured ==
    [cls |-> "ImproperlyConfigured",
     mro |-> <<"ImproperlyConfigured", "HTTPException", "LilyaException", "Exception",
               "BaseException">>,
     lilya_http |-> TRUE, ravyn_http |-> TRUE,
     status_code |-> HTTP_500_INTERNAL_SERVER_ERROR, detail |-> "Misconfigured.",
     headers |-> None, extra |-> "extra", args |-> "",
     ws |-> FALSE, code |-> None]

\* A lilya HTTPException that is not a ravyn HTTPException.
LilyaNotFound ==
    [cls |-> "LilyaException", mro |-> <<"LilyaException", "Exception", "BaseException">>,
     lilya_http |-> TRUE, ravyn_http |-> FALSE,
     status_code |-> HTTP_404_NOT_FOUND, detail |-> "Not Found",
     headers |-> None, extra |-> None, args |-> "",
     ws |-> FALSE, code |-> None]

\* ValueError(), raised without arguments.
ValueError ==
    [cls |-> "ValueError", mro |-> <<"ValueError", "Exception", "BaseException">>,
     lilya_http |-> FALSE, ravyn_http |-> FALSE,
     status_code |-> None, detail |-> None,
     headers |-> None, extra |-> None, args |-> "", ws |-> FALSE, code |-> None]

\* A ravyn WebSocketException: a close code and a reason.
WebSocketException ==
    [cls |-> "WebSocketException",
     mro |-> <<"WebSocketException", "Exception", "BaseException">>,
     lilya_http |-> FALSE, ravyn_http |-> FALSE,
     status_code |-> None, detail |-> "Policy violation",
     headers |-> None, extra |-> None, args |-> "", ws |-> TRUE,
     code |-> WS_1008_POLICY_VIOLATION]

\* asyncio.CancelledError: the task running the call was cancelled. It derives
\* from BaseException, not from Exception.
CancelledError ==
    [cls |-> "CancelledError", mro |-> <<"CancelledError", "BaseException">>,
     lilya_http |-> FALSE, ravyn_http |-> FALSE,
     status_code |-> None, detail |-> None,
     headers |-> None, extra |-> None, args |-> "", ws |-> FALSE, code |-> None]

\* The exceptions a wrapped app raises.
Exceptions ==
    {PermissionDenied, NotAuthorized, ShouldNotBeReached, Forbidden,
     ImproperlyConfigured, LilyaNotFound, ValueError, WebSocketException,
     CancelledError}

\* repr(exc): the class name and the constructor arguments.
repr(exc) == exc.cls \o "(" \o exc.args \o ")"

\* ------------------------------------------------ exception middleware

\* An ExceptionHandlerMap: handlers keyed by status code and handlers keyed by
\* exception class.  A handler is named by a string; None: no handler.
NoHandlers == [by_status |-> <<>>, by_class |-> <<>>]

\* The keys handlers are registered under: status codes and exception classes.
StatusKeys == {HTTP_403_FORBIDDEN, HTTP_404_NOT_FOUND, HTTP_500_INTERNAL_SERVER_ERROR}
ClassKeys == {"PermissionDenied", "HTTPException", "LilyaException", "ValueError",
              "Exception"}

\* The handler an application registers under a key, named after the key.
status_handler(status_code) == "handle_" \o ToString(status_code)
class_handler(exc_cls) == "handle_" \o exc_cls

\* The handler maps a RavynAPIException is constructed with.
ExceptionHandlerMaps ==
    { [by_status |-> [k \in S |-> status_handler(k)],
       by_class |-> [k \in C |-> class_handler(k)]] :
        <<S, C>> \in { sc \in (SUBSET StatusKeys) \X (SUBSET ClassKeys) :
                          Cardinality(sc[1]) + Cardinality(sc[2]) <= MaxHandlers } }

\* exception_handlers.get(key) on the status-code keys.
get_status(exception_handlers, status_code) ==
    IF status_code \in DOMAIN exception_handlers.by_status
    THEN exception_handlers.by_status[status_code] ELSE None

\* exception_handlers.get(key) on the exception-class keys.
get_class(exception_handlers, exc_cls) ==
    IF exc_cls \in DOMAIN exception_handlers.by_class
    THEN exception_handlers.by_class[exc_cls] ELSE None

\* Mutant: the MRO is searched from its end, the most general class wins.
mro_lookup_base_first(exception_handlers, mro, i) ==
    LET hits == { k \in i..Len(mro) : get_class(exception_handlers, mro[k]) # None }
    IN  IF hits = {} THEN None
        ELSE get_class(exception_handlers,
                       mro[CHOOSE k \in hits : \A j \in hits : j <= k])

\* The handler of the first class of the MRO, from position i on, that has one.
RECURSIVE mro_lookup(_, _, _)
mro_lookup(exception_handlers, mro, i) ==
    IF i > Len(mro) THEN None
    ELSE IF get_class(exception_handlers, mro[i]) # None
         THEN get_class(exception_handlers, mro[i])
         ELSE mro_lookup(exception_handlers, mro, i + 1)

\* Mutant: the handlers keyed by exception class are consulted first.
get_exception_handler_class_first(exception_handlers, exc) ==
    LET status_code == IF exc.lilya_http THEN exc.status_code
                       ELSE HTTP_500_INTERNAL_SERVER_ERROR
    IN  IF mro_lookup(exception_handlers, exc.mro, 1) # None
        THEN mro_lookup(exception_handlers, exc.mro, 1)
        ELSE get_status(exception_handlers, status_code)

\* RavynAPIException.get_exception_handler
get_exception_handler(exception_handlers, exc) ==
    LET status_code == IF exc.lilya_http THEN exc.status_code
                       ELSE HTTP_500_INTERNAL_SERVER_ERROR
    IN  IF DOMAIN exception_handlers.by_status = {}
           /\ DOMAIN exception_handlers.by_class = {}
        THEN None
        ELSE IF get_status(exception_handlers, status_code) # None
             THEN get_status(exception_handlers, status_code)
             ELSE mro_lookup(exception_handlers, exc.mro, 1)

\* ResponseContent(detail=..., status_code=...): extra is None and status_code
\* is 500 unless given.
ResponseContent(detail, status_code) ==
    [detail |-> detail, extra |-> None, status_code |-> status_code]
ResponseContent_default_status_code == HTTP_500_INTERNAL_SERVER_ERROR

\* Mutant: every exception is answered as an internal error.
create_exception_response_always_500(exc) ==
    LET content == ResponseContent(repr(exc), ResponseContent_default_status_code)
    IN  [status_code |-> content.status_code, detail |-> content.detail,
         content |-> content, headers |-> None, media_type |-> "application/json"]

\* RavynAPIException.create_exception_response: the JSON response for an
\* exception.  content: the body (a field that is None is left out of the
\* JSON), detail: the detail of the body.
create_exception_response(exc) ==
    LET content ==
            IF exc.ravyn_http \/ exc.lilya_http
            THEN IF exc.ravyn_http /\ exc.extra # None
                 THEN [ResponseContent(exc.detail, exc.status_code)
                          EXCEPT !.extra = exc.extra]
                 ELSE ResponseContent(exc.detail, exc.status_code)
            ELSE ResponseContent(repr(exc), ResponseContent_default_status_code)
    IN  [status_code |-> content.status_code, detail |-> content.detail,
         content |-> content,
         headers |-> IF exc.ravyn_http \/ exc.lilya_http THEN exc.headers ELSE None,
         media_type |-> "application/json"]

\* ServerErrorMiddleware.debug_response: the traceback page.
debug_response(exc) ==
    [status_code |-> HTTP_500_INTERNAL_SERVER_ERROR, detail |-> "Traceback",
     media_type |-> "text/plain"]

\* Mutant: with debug enabled every exception gets the traceback page.
default_http_exception_handler_debug_any_status(debug, exc) ==
    IF debug THEN debug_response(exc) ELSE create_exception_response(exc)

\* RavynAPIException.default_http_exception_handler
default_http_exception_handler(debug, exc) ==
    LET status_code == IF exc.lilya_http THEN exc.status_code
                       ELSE HTTP_500_INTERNAL_SERVER_ERROR
    IN  IF status_code = HTTP_500_INTERNAL_SERVER_ERROR /\ debug
        THEN debug_response(exc)
        ELSE create_exception_response(exc)

\* ravyn.exception_handlers.http_exception_handler: a JSON response with the
\* exception's detail and status code.
http_exception_handler(exc) ==
    [status_code |-> exc.status_code, detail |-> exc.detail]

\* A handler registered by the application: it answers with a response of its
\* own that names it.
registered_handler(exception_handler, exc) ==
    [status_code |-> IF exc.lilya_http THEN exc.status_code
                     ELSE HTTP_500_INTERNAL_SERVER_ERROR,
     detail |-> exception_handler]

\* The response a named exception handler builds.
call_exception_handler(exception_handler, debug, exc) ==
    CASE exception_handler = "http_exception_handler" -> http_exception_handler(exc)
      [] exception_handler = "default_http_exception_handler" ->
            default_http_exception_handler(debug, exc)
      [] OTHER -> registered_handler(exception_handler, exc)

\* Mutant: http_exception_handler is taken for an HTTP exception wherever the
\* wrapper sits, inside the route boundary or not.
choose_exception_handler_any_scope(scope, exception_handlers, ex) ==
    LET found == get_exception_handler(exception_handlers, ex)
    IN  IF found # None THEN found
        ELSE IF ex.ravyn_http \/ ex.lilya_http THEN "http_exception_handler"
        ELSE "default_http_exception_handler"

\* RavynAPIException.__call__ on an HTTP scope whose app raised ex: the handler
\* that is chosen.
choose_exception_handler(scope, exception_handlers, ex) ==
    LET found == get_exception_handler(exception_handlers, ex)
        at_boundary ==
            IF found = None /\ scope._ravyn_route_boundary
               /\ (ex.ravyn_http \/ ex.lilya_http)
            THEN "http_exception_handler" ELSE found
    IN  IF at_boundary = None THEN "default_http_exception_handler" ELSE at_boundary

\* Mutant: without a registered handler the exception is raised again and
\* reaches the client as a plain 500.
RavynAPIException_call_reraise(scope, exception_handlers, debug, ex) ==
    IF get_exception_handler(exception_handlers, ex) = None
    THEN [status_code |-> HTTP_500_INTERNAL_SERVER_ERROR,
          detail |-> "Internal Server Error"]
    ELSE call_exception_handler(
             get_exception_handler(exception_handlers, ex), debug, ex)

\* RavynAPIException.__call__ on an HTTP scope whose app raised ex: the response
\* that is sent.
RavynAPIException_call(scope, exception_handlers, debug, ex) ==
    call_exception_handler(
        choose_exception_handler(scope, exception_handlers, ex), debug, ex)

\* AsyncExitStackMiddleware.__call__ marks the scope before the routes run.
http_scope == [type |-> "http", _ravyn_route_boundary |-> TRUE]

\* The scopes a RavynAPIException is called with: HTTP or websocket, inside or
\* outside the route boundary.
Scopes ==
    { [type |-> t, _ravyn_route_boundary |-> b] :
        t \in {"http", "websocket"}, b \in BOOLEAN }

\* Mutant: only HTTP exceptions are caught.
caught_http_only(ex) == ex.lilya_http

\* "except Exception as ex": the clause catches what derives from Exception.
caught(ex) == \E i \in DOMAIN ex.mro : ex.mro[i] = "Exception"

\* Mutant: the status code of an HTTP exception is sent as it is.
websocket_close_plain_status(ex) ==
    [type |-> "websocket.close",
     code |-> IF ex.ws THEN ex.code
              ELSE IF ex.lilya_http THEN ex.status_code
              ELSE HTTP_500_INTERNAL_SERVER_ERROR + 4000,
     reason |-> IF ex.ws \/ ex.lilya_http THEN ex.detail ELSE repr(ex)]

\* RavynAPIException.__call__ on a scope that is not HTTP: the close event sent.
websocket_close(ex) ==
    [type |-> "websocket.close",
     code |-> IF ex.ws THEN ex.code
              ELSE IF ex.lilya_http THEN ex.status_code + 4000
              ELSE HTTP_500_INTERNAL_SERVER_ERROR + 4000,
     reason |-> IF ex.ws \/ ex.lilya_http THEN ex.detail ELSE repr(ex)]

\* ---------------------------------------------------------------- requests

\* The handler's permission check: the entries are evaluated in list order and
\* the first one that rejects raises PermissionDenied. 0: none rejected.
RECURSIVE first_denied(_, _, _)
first_denied(perms, i, h) ==
    IF i > Len(perms) THEN 0
    ELSE IF ~evaluate(perms[i], h) THEN i
    ELSE first_denied(perms, i + 1, h)

\* A permissions list that passed the declaration check holds permissions of
\* one kind: the Lilya permissions of the list, and its Ravyn permissions.
lilya_permissions(perms) ==
    IF "PermissionProtocol" \in permission_kinds(perms, 1) THEN perms ELSE << >>
ravyn_permissions(perms) ==
    IF "PermissionProtocol" \in permission_kinds(perms, 1) THEN << >> ELSE perms

\* The Lilya permissions wrapped around the handler, outermost first: each one
\* is called with the request and either raises or awaits the app it wraps.
\* The exception raised by the first one that raises; "app": all of them passed.
RECURSIVE first_raised(_, _, _)
first_raised(perms, i, h) ==
    IF i > Len(perms) THEN "app"
    ELSE IF PermissionProtocol_call(perms[i].name, h) # "app"
         THEN PermissionProtocol_call(perms[i].name, h)
         ELSE first_raised(perms, i + 1, h)

\* The Lilya permissions on the way to the handler: those of the Include, then
\* those of the handler.
lilya_permissions_call(handler, h) ==
    first_raised(lilya_permissions(include_permissions(handler))
                     \o lilya_permissions(permissions(handler)), 1, h)

\* The exception object of a raise statement.
exception_named(name) ==
    CASE name = "NotAuthorized" -> NotAuthorized
      [] name = "PermissionDenied" -> PermissionDenied
      [] name = "Exception" -> ShouldNotBeReached

\* Whether the Ravyn permissions of the application, the Gateway and the handler
\* let the request through.
allow_connection(handler, h) ==
    first_denied(ravyn_permissions(app_permissions(handler))
                     \o ravyn_permissions(gateway_permissions(handler))
                     \o ravyn_permissions(permissions(handler)), 1, h) = 0

\* The exception that ends the request before or inside the handler body;
\* "return": the body ran to its end.
dispatch(handler, h) ==
    IF lilya_permissions_call(handler, h) # "app"
    THEN lilya_permissions_call(handler, h)
    ELSE IF ~allow_connection(handler, h) THEN "PermissionDenied"
    ELSE IF handler_body(handler) = "raise" THEN "Exception"
    ELSE "return"

\* Whether the request gets as far as the handler body.
reaches_handler(handler, h) ==
    lilya_permissions_call(handler, h) = "app" /\ allow_connection(handler, h)

\* -------------------------------------------------------------------- abort

\* A statement of a handler body: a call of abort, a raise of an HTTPException
\* that carries a response, a return, or any other statement.
Statement(op, status_code, detail, headers_) ==
    [op |-> op, status_code |-> status_code, detail |-> detail, headers |-> headers_]

\* abort(status_code, detail, headers) written in a handler.
abort(status_code, detail, headers_) == Statement("abort", status_code, detail, headers_)

\* The statements of the handlers of test_abort.
abort_404 == abort(HTTP_404_NOT_FOUND, None, None)
abort_401_detail == abort(HTTP_401_UNAUTHORIZED, "Unauthorized access", None)
abort_403_headers == abort(HTTP_403_FORBIDDEN, "Forbidden", "X-Blocked: true")
abort_404_stop_here == abort(HTTP_404_NOT_FOUND, "Stop here", None)
abort_400 == abort(HTTP_400_BAD_REQUEST, None, None)
abort_204 == abort(HTTP_204_NO_CONTENT, None, None)
return_message == Statement("return", HTTP_200_OK, "should never run", None)
assign_response == Statement("assign", HTTP_418_IM_A_TEAPOT, "Custom body", "X-Custom: 1")
raise_with_response ==
    Statement("raise", HTTP_418_IM_A_TEAPOT, "Custom body", "X-Custom: 1")

Statements ==
    {abort_404, abort_401_detail, abort_403_headers, abort_404_stop_here, abort_400,
     abort_204, return_message, assign_response, raise_with_response}

\* Mutant: the return statement is written before the call of abort.
stop_handler_return_first == <<return_message, abort_404_stop_here>>

\* The handler of test_abort_does_not_continue_after_raise.
stop_handler == <<abort_404_stop_here, return_message>>

\* The handler bodies under test.
HandlerBodies == SeqsUpTo(Statements, MaxStatements)

\* The reason phrase of a status code.
phrase(status_code) ==
    CASE status_code = HTTP_400_BAD_REQUEST -> "Bad Request"
      [] status_code = HTTP_401_UNAUTHORIZED -> "Unauthorized"
      [] status_code = HTTP_403_FORBIDDEN -> "Forbidden"
      [] status_code = HTTP_404_NOT_FOUND -> "Not Found"
      [] status_code = HTTP_204_NO_CONTENT -> "No Content"
      [] status_code = HTTP_418_IM_A_TEAPOT -> "I'm a Teapot"

\* An HTTPException that carries the response to send.
HTTPException_with_response(status_code, detail, response) ==
    [cls |-> "HTTPException",
     mro |-> <<"HTTPException", "LilyaException", "Exception", "BaseException">>,
     lilya_http |-> TRUE, ravyn_http |-> TRUE,
     status_code |-> status_code, detail |-> detail,
     headers |-> None, extra |-> None, args |-> "", ws |-> FALSE, code |-> None,
     response |-> <<response>>]

\* What a call of abort does: it builds the response (the detail or, without
\* one, the reason phrase; no body for 204) and raises an HTTPException that
\* carries it.  The exception raised.
abort_call(status_code, detail, headers_) ==
    HTTPException_with_response(
        status_code, IF detail = None THEN phrase(status_code) ELSE detail,
        [status_code |-> status_code,
         detail |-> IF status_code = HTTP_204_NO_CONTENT THEN None
                    ELSE IF detail = None THEN phrase(status_code) ELSE detail,
         headers |-> headers_])

\* The response sent for an exception raised by a handler: the response the
\* exception carries, or the one the exception middleware builds.
exception_response(exc) ==
    IF exc.response # << >> THEN exc.response[1]
    ELSE RavynAPIException_call(http_scope, NoHandlers, FALSE, exc)

\* ------------------------------------------------------ introspection graph

\* NodeKind and EdgeKind of the graph.
APPLICATION == "application"
MIDDLEWARE == "middleware"
PERMISSION == "permission"
ROUTER == "router"
ROUTE == "route"
INCLUDE == "include"
WRAPS == "wraps"
DISPATCHES == "dispatches"

\* A route entry of an application: a Gateway, WebSocketGateway or Path with its
\* handler, or an Include with the routes of what it mounts (app: the child
\* application it mounts, None when it lists routes itself).
RouteEntry(type, path, middleware, permissions_, app, routes) ==
    [type |-> type, path |-> path, ref |-> type \o "(" \o path \o ")",
     middleware |-> middleware, permissions |-> permissions_,
     app |-> app, routes |-> routes]

\* The route entries of the tests.
ping_gateway == RouteEntry("Gateway", "/ping", << >>, << >>, None, << >>)
users_gateway ==
    RouteEntry("Gateway", "/users/{id}", << >>, <<"Allow", "Deny">>, None, << >>)
\* Mutant: the two route middlewares are given in the other order.
with_mw_gateway_swapped ==
    RouteEntry("Gateway", "/with-mw", <<"RouteMW2", "RouteMW1">>, << >>, None, << >>)
with_mw_gateway ==
    RouteEntry("Gateway", "/with-mw", <<"RouteMW1", "RouteMW2">>, << >>, None, << >>)
ws_gateway == RouteEntry("WebSocketGateway", "/ws", << >>, << >>, None, << >>)
inner_path == RouteEntry("Path", "/inner", << >>, << >>, None, << >>)
i_gateway == RouteEntry("Gateway", "/i", << >>, << >>, None, << >>)
child_include ==
    RouteEntry("Include", "/child", << >>, << >>, "ChildRavyn", <<inner_path>>)
inc_include ==
    RouteEntry("Include", "/inc", <<"IncMW">>, <<"IncAllow">>, "ChildRavyn",
               <<i_gateway>>)

RouteEntries ==
    {ping_gateway, users_gateway, with_mw_gateway, ws_gateway, child_include,
     inc_include}

\* Ravyn(middleware=[...], routes=[...]): the applications that are assembled.
GraphApps ==
    { [ref |-> "app", middleware |-> m, routes |-> r] :
        m \in SeqsUpTo({"MiddlewareA", "MiddlewareB"}, MaxChain),
        r \in { q \in SeqsUpTo(RouteEntries, MaxEntries) : distinct(q) } }

\* The middleware stack of an application: Ravyn puts TrustedHostMiddleware
\* before the middleware the user lists.
app_middleware(app) == <<"TrustedHostMiddleware">> \o app.middleware

\* A graph: its nodes in the order they were added and its edges.  A node has
\* an id, a kind, the object it stands for (ref) and the metadata "class" and
\* "path" (None: not set).
EmptyGraph == [nodes |-> << >>, edges |-> << >>]

\* Mutant: a second application node is added for the same application.
add_application_twice(g, app) ==
    [g EXCEPT !.nodes =
        g.nodes \o <<[id |-> Len(g.nodes) + 1, kind |-> APPLICATION, ref |-> app.ref,
                      class |-> "Ravyn", path |-> None],
                     [id |-> Len(g.nodes) + 2, kind |-> APPLICATION, ref |-> app.ref,
                      class |-> "Ravyn", path |-> None]>>]

\* The node of the application itself.
add_application(g, app) ==
    [g EXCEPT !.nodes =
        Append(g.nodes, [id |-> Len(g.nodes) + 1, kind |-> APPLICATION,
                         ref |-> app.ref, class |-> "Ravyn", path |-> None])]

\* A node of the given kind is added and linked from the node "source".
add_linked_node(g, source, edge_kind, kind, ref, class, path) ==
    [nodes |-> Append(g.nodes, [id |-> Len(g.nodes) + 1, kind |-> kind, ref |-> ref,
                                class |-> class, path |-> path]),
     edges |-> Append(g.edges, [source |-> source, target |-> Len(g.nodes) + 1,
                                kind |-> edge_kind])]

\* A chain of layers (middlewares or permissions) hung below node "source", one
\* wrapping the next, in the order of the list, from position i on.
RECURSIVE add_chain(_, _, _, _, _)
add_chain(g, source, classes, kind, i) ==
    IF i > Len(classes) THEN g
    ELSE add_chain(add_linked_node(g, source, WRAPS, kind, classes[i], classes[i], None),
                   Len(g.nodes) + 1, classes, kind, i + 1)

\* The layers of a route or an Include: its middlewares, then its permissions.
add_layers(g, source, entry) ==
    LET with_middleware == add_chain(g, source, entry.middleware, MIDDLEWARE, 1)
    IN  add_chain(with_middleware,
                  IF entry.middleware = << >> THEN source ELSE Len(with_middleware.nodes),
                  entry.permissions, PERMISSION, 1)

\* Mutant: the routes of the Include and the routes of the child application it
\* mounts are both traversed.
include_children_twice(entry) ==
    IF entry.app # None THEN entry.routes \o entry.routes ELSE entry.routes

\* The routes found under an Include: those of the child application when it
\* mounts one, its own routes otherwise; each is traversed once.
include_children(entry) == entry.routes

\* The nodes of the route entries, from position i on, below node "parent": a
\* route node with its layers, or an include node with its layers and the
\* routes under it.
RECURSIVE add_routes(_, _, _, _)
add_routes(g, parent, routes, i) ==
    IF i > Len(routes) THEN g
    ELSE LET entry == routes[i]
             node_id == Len(g.nodes) + 1
             with_node ==
                 add_linked_node(g, parent, DISPATCHES,
                                 IF entry.type = "Include" THEN INCLUDE ELSE ROUTE,
                                 entry.ref, entry.type, entry.path)
             with_layers == add_layers(with_node, node_id, entry)
             with_children ==
                 IF entry.type = "Include"
                 THEN add_routes(with_layers, node_id, include_children(entry), 1)
                 ELSE with_layers
         IN  add_routes(with_children, parent, routes, i + 1)

\* Mutant: only the route nodes are exported.
to_dict_routes_only(g) ==
    [nodes |-> SelectSeq(g.nodes, LAMBDA n : n.kind = ROUTE), edges |-> g.edges]

\* graph.to_dict(): every node as {id, kind, metadata} and every edge as
\* {source, target, kind}.
to_dict(g) ==
    [nodes |-> [i \in DOMAIN g.nodes |->
                   [id |-> g.nodes[i].id, kind |-> g.nodes[i].kind,
                    metadata |-> [class |-> g.nodes[i].class,
                                  path |-> g.nodes[i].path]]],
     edges |-> g.edges]

\* graph.by_kind(kind): the nodes of a kind, in the order they were added.
by_kind(g, kind) == SelectSeq(g.nodes, LAMBDA n : n.kind = kind)

\* The layers below a node: the nodes reached from it along "wraps" edges.
RECURSIVE layers_below(_, _)
layers_below(g, id) ==
    LET out == { i \in DOMAIN g.edges :
                   g.edges[i].source = id /\ g.edges[i].kind = WRAPS }
    IN  IF out = {} THEN << >>
        ELSE LET target == g.edges[CHOOSE i \in out : TRUE].target
             IN  <<g.nodes[target]>> \o layers_below(g, target)

\* graph.route_middlewares(route) and graph.permissions_for(route).
route_middlewares(g, route) ==
    SelectSeq(layers_below(g, route.id), LAMBDA n : n.kind = MIDDLEWARE)
permissions_for(g, route) ==
    SelectSeq(layers_below(g, route.id), LAMBDA n : n.kind = PERMISSION)

\* graph.route_by_path(path)
route_by_path(g, path) ==
    CHOOSE n \in { g.nodes[i] : i \in DOMAIN g.nodes } : n.kind = ROUTE /\ n.path = path

\* [node.metadata["class"] for node in nodes]
class_names(nodes) == [i \in DOMAIN nodes |-> nodes[i].class]

\* ------------------------------------------------- async exit stack
\* AsyncExitStackMiddleware: one middleware instance and the calls in flight
\* through it. Objects live in two heaps, a lazy stack and an exit stack being
\* known by their position.

\* The calls in flight through the middleware at the same time.
Calls == {"first", "second"}

\* The scope of a call before the middleware touched it.
new_scope == [context_name |-> << >>, _ravyn_route_boundary |-> FALSE]

\* How the wrapped app, or the middleware, ended.
pending == [kind |-> "pending"]
returns == [kind |-> "returned"]
raises(exc) == [kind |-> "raised", exc |-> exc]

\* The exception a cleanup callback raises.
RuntimeError ==
    [cls |-> "RuntimeError", mro |-> <<"RuntimeError", "Exception", "BaseException">>,
     lilya_http |-> FALSE, ravyn_http |-> FALSE,
     status_code |-> None, detail |-> None,
     headers |-> None, extra |-> None, args |-> "cleanup", ws |-> FALSE,
     code |-> None]

\* The exceptions the wrapped app raises.
AppExceptions == {ValueError, Forbidden, CancelledError}

\* A callback the wrapped app pushes: the call that pushed it, its rank among
\* the callbacks of that call, and whether it raises when it is run.
Callback(owner, n, fails) == [owner |-> owner, n |-> n, fails |-> fails]

\* _LazyAsyncExitStack.__init__
LazyAsyncExitStack == [_stack |-> << >>]

\* AsyncExitStack(): no callback yet; made_by is the lazy stack constructing it.
AsyncExitStack(made_by) == [callbacks |-> << >>, made_by |-> made_by]

\* Mutant: a new AsyncExitStack on every access.
LazyAsyncExitStack_ensure_always_new(heap, self) ==
    [lazy |-> [heap.lazy EXCEPT ![self]._stack = <<Len(heap.exit) + 1>>],
     exit |-> Append(heap.exit, AsyncExitStack(self))]

\* _LazyAsyncExitStack._ensure: the heap once self has its stack.
LazyAsyncExitStack_ensure(heap, self) ==
    IF heap.lazy[self]._stack = << >>
    THEN [lazy |-> [heap.lazy EXCEPT ![self]._stack = <<Len(heap.exit) + 1>>],
          exit |-> Append(heap.exit, AsyncExitStack(self))]
    ELSE heap

\* _LazyAsyncExitStack.__getattr__("push_async_callback") and the call of the
\* method it returns: the callback is pushed on the stack of self.
LazyAsyncExitStack_push_async_callback(heap, self, callback) ==
    LET ensured == LazyAsyncExitStack_ensure(heap, self)
        stack == ensured.lazy[self]._stack[1]
    IN  [ensured EXCEPT !.exit[stack].callbacks = Append(@, callback)]

Reverse(q) == [i \in 1..Len(q) |-> q[Len(q) + 1 - i]]

\* AsyncExitStack.aclose: the callbacks are popped and run, last pushed first,
\* all of them; an exception a callback raised is raised at the end.
AsyncExitStack_aclose(heap, stack) ==
    LET callbacks == heap.exit[stack].callbacks
    IN  [heap |-> [heap EXCEPT !.exit[stack].callbacks = << >>],
         ran |-> Reverse(callbacks),
         error |-> IF \E i \in DOMAIN callbacks : callbacks[i].fails
                   THEN <<RuntimeError>> ELSE << >>]

\* _LazyAsyncExitStack.aclose
LazyAsyncExitStack_aclose(heap, self) ==
    IF heap.lazy[self]._stack # << >>
    THEN AsyncExitStack_aclose(heap, heap.lazy[self]._stack[1])
    ELSE [heap |-> heap, ran |-> << >>, error |-> << >>]

\* Mutant: every call is given the lazy stack the first call created.
install_first_stack(scope, stack) ==
    [scope EXCEPT !.context_name = <<1>>, !._ravyn_route_boundary = TRUE]

\* AsyncExitStackMiddleware.__call__: the lazy stack is put in the scope under
\* config.context_name and the scope is marked as the route boundary.
install(scope, stack) ==
    [scope EXCEPT !.context_name = <<stack>>, !._ravyn_route_boundary = TRUE]

\* Mutant: cleanup is skipped when the wrapped app raised.
after_app_no_finally(result) ==
    IF result.kind = "raised" THEN "after" ELSE "finally"

\* AsyncExitStackMiddleware.__call__: where the call continues once the wrapped
\* app ended. The finally clause runs whatever the result.
after_app(result) == "finally"

\* Mutant: in debug mode the exception is printed and not raised.
finish_print_only(debug, caught_exception) ==
    [printed |-> caught_exception # << >> /\ debug,
     outcome |-> IF caught_exception # << >> /\ ~debug
                 THEN raises(caught_exception[1]) ELSE returns]

\* AsyncExitStackMiddleware.__call__ after the finally clause: the exception
\* that was caught is printed in debug mode, and raised.
finish(debug, caught_exception) ==
    [printed |-> caught_exception # << >> /\ debug,
     outcome |-> IF caught_exception # << >>
                 THEN raises(caught_exception[1]) ELSE returns]

\* ----------------------------------------------------------------- createapp
\* The createapp command: one run of create_app over the names it is given.

\* App names given on the command line.
AppNames == {"accounts", "payments"}

\* The secret keys get_random_secret_key returns.
SecretKeys == {"key-a", "key-b"}

\* create_app: the options built from the parameters of the command.
create_app_options(secret_key, with_basic_controller, context) ==
    [secret_key |-> secret_key, verbosity |-> 1,
     with_basic_controller |-> with_basic_controller, simple |-> FALSE,
     app_context |-> context, api_version |-> "v1", location |-> "."]

NoOptions == create_app_options("", FALSE, FALSE)

\* How a call of directive.handle ends: the app is generated, a DirectiveError
\* is raised, or another exception is.
HandleEnds == {"generated", "DirectiveError", "OSError"}

\* str(e) of the DirectiveError raised for an app.
DirectiveError_str(name) == "cannot generate " \o name

\* sayer.success and sayer.error: the message printed.
success(text) == [level |-> "success", text |-> text]
error(text) == [level |-> "error", text |-> text]

\* Mutant: a DirectiveError is reported and ends the loop.
loop_body_stop_on_error(name, end) ==
    CASE end = "generated" ->
             [printed |-> <<success(" App " \o name \o " generated successfully!")>>,
              continues |-> TRUE]
      [] end = "DirectiveError" ->
             [printed |-> <<error(DirectiveError_str(name))>>, continues |-> FALSE]
      [] OTHER -> [printed |-> << >>, continues |-> FALSE]

\* create_app: the body of the loop for one name, given how directive.handle
\* ended: what is printed, and whether the loop goes on to the next name. An
\* exception other than DirectiveError is not caught and leaves the command.
loop_body(name, end) ==
    CASE end = "generated" ->
             [printed |-> <<success(" App " \o name \o " generated successfully!")>>,
              continues |-> TRUE]
      [] end = "DirectiveError" ->
             [printed |-> <<error(DirectiveError_str(name))>>, continues |-> TRUE]
      [] OTHER -> [printed |-> << >>, continues |-> FALSE]

\* ------------------------------------------------------------ authentication
\* The applications of test_lilya_authentication.py behind lilya's
\* AuthenticationMiddleware.

\* dummy = BasicUser("Dummy")
dummy == [display_name |-> "Dummy"]

\* The values of the allow-all header a request carries; None: no such header.
AllowAllValues == {None, "yes", "no"}

\* Mutant: the backend authenticates every connection.
DenyNotAllowAll_authenticate_anyone(allow_all) ==
    <<[credentials |-> {"authenticated"}, user |-> dummy]>>

\* DenyNotAllowAll.authenticate: <<the AuthResult>>, or << >> for None.
DenyNotAllowAll_authenticate(allow_all) ==
    IF allow_all = "yes"
    THEN <<[credentials |-> {"authenticated"}, user |-> dummy]>>
    ELSE << >>

\* AuthenticationMiddleware.authenticate: the backends are asked in order; the
\* first result that is not None is the result.
RECURSIVE authenticate(_, _)
authenticate(backend, allow_all) ==
    IF backend = << >> THEN << >>
    ELSE LET auth_result ==
                 CASE Head(backend) = "DenyNotAllowAll" ->
                          DenyNotAllowAll_authenticate(allow_all)
         IN  IF auth_result # << >> THEN auth_result
             ELSE authenticate(Tail(backend), allow_all)

\* PlainText(text), status 200.
PlainText(text) == [status_code |-> HTTP_200_OK, text |-> text, location |-> None]

\* RedirectResponse(url): status 303 and the Location header.
RedirectResponse(url) ==
    [status_code |-> HTTP_303_SEE_OTHER, text |-> "", location |-> url]

\* The answer of AuthenticationMiddleware to a connection no backend
\* authenticated, when no on_error is configured.
PermissionDenied_response ==
    [status_code |-> HTTP_403_FORBIDDEN, text |-> "Permission denied",
     location |-> None]

\* The answer of the router to a path no route matches.
NotFound_response ==
    [status_code |-> HTTP_404_NOT_FOUND, text |-> "Not Found", location |-> None]

\* The handlers of the tests: what they answer to a request with the given
\* allow-all header and request.user.
homepage(allow_all, user) ==
    IF allow_all = "yes" THEN PlainText(user.display_name)
    ELSE PlainText("Should not be reached")

login(allow_all, user) == PlainText("logged in")

\* DefineMiddleware(AuthenticationMiddleware, backend=..., on_error=...);
\* on_error is << >> when it is not given.
AuthenticationMiddleware(backend, on_error) ==
    [backend |-> backend, on_error |-> on_error]

\* A route: its path, its handler and the middleware in front of it, outermost
\* first.
AuthRoute(path, handler, middleware) ==
    [path |-> path, handler |-> handler, middleware |-> middleware]

\* test_auth_app_level: the middleware is on the application.
app_level ==
    <<AuthRoute("/", "homepage",
                <<AuthenticationMiddleware(<<"DenyNotAllowAll">>, << >>)>>)>>

\* test_auth_include_level: login is outside the Include that carries the
\* middleware, homepage inside.
include_level ==
    <<AuthRoute("/login", "login", << >>),
      AuthRoute("/", "homepage",
                <<AuthenticationMiddleware(<<"DenyNotAllowAll">>,
                                           <<RedirectResponse("/login")>>)>>)>>

AuthApps == {app_level, include_level}
AuthPaths == {"/", "/login"}

\* The anonymous user of a connection that went through no authentication.
no_user == [display_name |-> ""]

\* The handler is called.
call_handler(handler, allow_all, user) ==
    [response |-> CASE handler = "homepage" -> homepage(allow_all, user)
                    [] handler = "login" -> login(allow_all, user),
     reached |-> handler,
     user |-> user]

\* AuthenticationMiddleware.__call__ in front of the rest of the chain: a
\* connection no backend authenticates is answered with on_error, or 403; an
\* authenticated one goes on with scope["user"] set.
RECURSIVE through_middleware(_, _, _, _)
through_middleware(middleware, handler, allow_all, user) ==
    IF middleware = << >> THEN call_handler(handler, allow_all, user)
    ELSE LET self == Head(middleware)
             auth_result == authenticate(self.backend, allow_all)
         IN  IF auth_result = << >>
             THEN [response |-> IF self.on_error # << >> THEN self.on_error[1]
                                ELSE PermissionDenied_response,
                   reached |-> None,
                   user |-> user]
             ELSE through_middleware(Tail(middleware), handler, allow_all,
                                     auth_result[1].user)

\* client.get(path, headers={"allow-all": ...}, follow_redirects=False)
auth_get(app, path, allow_all) ==
    LET matching == { i \in DOMAIN app : app[i].path = path }
    IN  IF matching = {}
        THEN [response |-> NotFound_response, reached |-> None, user |-> no_user]
        ELSE LET route == app[CHOOSE i \in matching : \A j \in matching : i <= j]
             IN  through_middleware(route.middleware, route.handler, allow_all,
                                    no_user)

\* --------------------------------------------------------------------- cqrs
\* The applications of the CQRS tests: a command bus and a query bus whose
\* handlers share a dict.

\* The keys and the values the requests of the tests carry.
StoreKeys == {"u1", "a", "missing"}
StoreValues == {"u1@example.com", "1"}

\* store: dict[str, str] = {}; a key that is absent maps to None.
empty_store == [k \in StoreKeys |-> None]

\* The messages of test_ravyn_integration_endpoints.py and of
\* test_cqrs_ravyn_default_buses.py.
CreateUser(user_id, email) == [type |-> "CreateUser", user_id |-> user_id, email |-> email]
GetUserEmail(user_id) == [type |-> "GetUserEmail", user_id |-> user_id]
SetValue(key, value) == [type |-> "SetValue", key |-> key, value |-> value]
GetValue(key) == [type |-> "GetValue", key |-> key]

\* Mutant: a key that is already in the store keeps its value.
handle_create_keep_first(d, cmd) ==
    IF d[cmd.user_id] = None THEN [d EXCEPT ![cmd.user_id] = cmd.email] ELSE d

\* build_app.handle_create: store[cmd.user_id] = cmd.email
handle_create(d, cmd) == [d EXCEPT ![cmd.user_id] = cmd.email]

\* build_app.handle_get: store.get(q.user_id)
handle_get_user_email(d, q) == d[q.user_id]

\* handle_set: store[cmd.key] = cmd.value
handle_set(d, cmd) == [d EXCEPT ![cmd.key] = cmd.value]

\* handle_get of the default buses: store.get(q.key)
handle_get_value(d, q) == d[q.key]

\* The registries of the buses of the two applications: message type ->
\* handler.
build_app ==
    [name |-> "build_app",
     cmd_bus |-> [CreateUser |-> "handle_create"],
     qry_bus |-> [GetUserEmail |-> "handle_get"]]

default_buses_app ==
    [name |-> "default_buses",
     cmd_bus |-> [SetValue |-> "handle_set"],
     qry_bus |-> [GetValue |-> "handle_get"]]

CqrsApps == {build_app, default_buses_app}

\* CommandBus.dispatch: the handler registered for the type of the command is
\* called with it; the store after the call.
CommandBus_dispatch(registry, d, cmd) ==
    LET handler == registry[cmd.type]
    IN  CASE handler = "handle_create" -> handle_create(d, cmd)
          [] handler = "handle_set" -> handle_set(d, cmd)

\* QueryBus.ask: the handler registered for the type of the query is called
\* with it, and its result returned.
QueryBus_ask(registry, d, q) ==
    CASE q.type = "GetUserEmail" /\ registry[q.type] = "handle_get" ->
             handle_get_user_email(d, q)
      [] q.type = "GetValue" /\ registry[q.type] = "handle_get" ->
             handle_get_value(d, q)

JSONResponse(content, status_code) == [status_code |-> status_code, json |-> content]

not_found == JSONResponse([detail |-> "not found"], HTTP_404_NOT_FOUND)

\* The endpoints that dispatch a command: create_user and set_endpoint. The
\* store after the request, and the response.
post_endpoint(app, d, key, value) ==
    IF app.name = "build_app"
    THEN [store |-> CommandBus_dispatch(app.cmd_bus, d, CreateUser(key, value)),
          response |-> JSONResponse([status |-> "created"], HTTP_201_CREATED)]
    ELSE [store |-> CommandBus_dispatch(app.cmd_bus, d, SetValue(key, value)),
          response |-> JSONResponse([ok |-> TRUE], HTTP_200_OK)]

\* The endpoints that ask a query: get_user_email and get_endpoint. What the
\* bus returned, and the response.
get_endpoint(app, d, key) ==
    LET val == IF app.name = "build_app"
               THEN QueryBus_ask(app.qry_bus, d, GetUserEmail(key))
               ELSE QueryBus_ask(app.qry_bus, d, GetValue(key))
    IN  [result |-> val,
         response |-> IF val = None THEN not_found
                      ELSE IF app.name = "build_app"
                      THEN JSONResponse([user_id |-> key, email |-> val], HTTP_200_OK)
                      ELSE JSONResponse([value |-> val], HTTP_200_OK)]

\* ------------------------------------------------------------------ actions

\* No application is under test.
PermIdle ==
    /\ phase = "idle"
    /\ declared = {}
    /\ raised = {}
    /\ headers = [n \in HeaderNames |-> None]
    /\ responses = [r \in Handlers |-> NoResponse]
    /\ was_reached = {}

\* No exception wrapper is under test.
ExcIdle ==
    /\ self_exception_handlers = NoHandlers
    /\ self_debug = FALSE
    /\ asgi_scope = http_scope
    /\ app_raised = << >>
    /\ lookup = None
    /\ chosen = None
    /\ sent = << >>
    /\ outcome = "idle"

\* No graph is being built.
GraphIdle ==
    /\ graph_app = [ref |-> "app", middleware |-> << >>, routes |-> << >>]
    /\ graph_pc = "idle"
    /\ cursor = 0
    /\ graph = EmptyGraph
    /\ exported = << >>

\* No handler is running.
AbortIdle ==
    /\ body = << >>
    /\ handler_pc = 0
    /\ executed = << >>
    /\ handler_raised = << >>
    /\ handler_state = "idle"
    /\ client_response = NoResponse

\* No call is in flight through the exit stack middleware.
StackIdle ==
    /\ mw_debug = FALSE
    /\ call_pc = [c \in Calls |-> "idle"]
    /\ scopes = [c \in Calls |-> new_scope]
    /\ lazy_stack = [c \in Calls |-> << >>]
    /\ exception = [c \in Calls |-> << >>]
    /\ lazy_stacks = << >>
    /\ exit_stacks = << >>
    /\ registered = [c \in Calls |-> << >>]
    /\ app_result = [c \in Calls |-> pending]
    /\ aclose_calls = [c \in Calls |-> 0]
    /\ ran = [c \in Calls |-> << >>]
    /\ printed = [c \in Calls |-> FALSE]
    /\ call_outcome = [c \in Calls |-> pending]

\* No createapp command is running.
CommandIdle ==
    /\ names = << >>
    /\ options = NoOptions
    /\ name_pc = 0
    /\ handle_calls = << >>
    /\ messages = << >>
    /\ command_state = "idle"

\* No application of the authentication tests is under test.
AuthIdle ==
    /\ auth_app = << >>
    /\ auth_log = << >>

\* No application of the CQRS tests is under test.
CqrsIdle ==
    /\ cqrs_app = << >>
    /\ store = empty_store
    /\ cqrs_log = << >>

LaterIdle ==
    /\ StackIdle
    /\ CommandIdle
    /\ AuthIdle
    /\ CqrsIdle

Init ==
    /\ phase = "assembly"
    /\ declared = {}
    /\ raised = {}
    /\ headers \in RequestHeaders
    /\ responses = [r \in Handlers |-> NoResponse]
    /\ was_reached = {}
    /\ ExcIdle
    /\ GraphIdle
    /\ AbortIdle
    /\ LaterIdle

\* @get(path=..., permissions=[...]) on a handler, then Gateway(handler=...).
Declare(handler) ==
    /\ phase = "assembly"
    /\ handler \notin declared
    /\ handler \notin { e.handler : e \in raised }
    /\ Cardinality(declared) < MaxRoutes
    /\ IF is_mixed(permissions(handler))
       THEN /\ raised' = raised \cup {[handler |-> handler, exc |-> "AssertionError"]}
            /\ UNCHANGED declared
       ELSE /\ declared' = declared \cup {handler}
            /\ UNCHANGED raised
    /\ UNCHANGED <<phase, headers, responses, was_reached>>
    /\ UNCHANGED <<excVars, graphVars, abortVars, laterVars>>

\* create_client(routes=[...]): the application starts serving.
CreateClient ==
    /\ phase = "assembly"
    /\ declared # {}
    /\ phase' = "serving"
    /\ UNCHANGED <<declared, raised, headers, responses, was_reached>>
    /\ UNCHANGED <<excVars, graphVars, abortVars, laterVars>>

\* client.get(path, headers=headers) on the route of a declared handler.
Request(handler) ==
    /\ phase = "serving"
    /\ handler \in declared
    /\ responses' =
         [responses EXCEPT ![handler] =
            IF dispatch(handler, headers) = "return"
            THEN handler_response
            ELSE RavynAPIException_call(http_scope, NoHandlers, FALSE,
                     exception_named(dispatch(handler, headers)))]
    /\ was_reached' =
         IF reaches_handler(handler, headers)
         THEN was_reached \cup {handler} ELSE was_reached
    /\ UNCHANGED <<phase, declared, raised, headers>>
    /\ UNCHANGED <<excVars, graphVars, abortVars, laterVars>>

Next ==
    \/ \E handler \in Handlers : Declare(handler)
    \/ CreateClient
    \/ \E handler \in Handlers : Request(handler)

Spec == Init /\ [][Next]_vars

\* RavynAPIException(app, debug, exception_handlers), about to be called.
InitExc ==
    /\ PermIdle
    /\ GraphIdle
    /\ AbortIdle
    /\ LaterIdle
    /\ self_exception_handlers \in ExceptionHandlerMaps
    /\ self_debug \in BOOLEAN
    /\ asgi_scope \in Scopes
    /\ app_raised = << >>
    /\ lookup = None
    /\ chosen = None
    /\ sent = << >>
    /\ outcome = "pending"

\* RavynAPIException.__call__ when the wrapped app returns normally.
AppReturns ==
    /\ outcome = "pending"
    /\ outcome' = "returned"
    /\ UNCHANGED <<self_exception_handlers, self_debug, asgi_scope, app_raised,
                   lookup, chosen, sent>>
    /\ UNCHANGED <<permVars, graphVars, abortVars, laterVars>>

\* RavynAPIException.__call__ when the wrapped app raises ex.
AppRaises(ex) ==
    /\ outcome = "pending"
    /\ app_raised' = <<ex>>
    /\ IF ~caught(ex)
       THEN /\ outcome' = "raised"
            /\ UNCHANGED <<lookup, chosen, sent>>
       ELSE IF asgi_scope.type = "http"
       THEN /\ lookup' = get_exception_handler(self_exception_handlers, ex)
            /\ chosen' = choose_exception_handler(asgi_scope, self_exception_handlers, ex)
            /\ sent' = Append(sent, RavynAPIException_call(
                                        asgi_scope, self_exception_handlers,
                                        self_debug, ex))
            /\ outcome' = "returned"
       ELSE /\ sent' = Append(sent, websocket_close(ex))
            /\ outcome' = "returned"
            /\ UNCHANGED <<lookup, chosen>>
    /\ UNCHANGED <<self_exception_handlers, self_debug, asgi_scope>>
    /\ UNCHANGED <<permVars, graphVars, abortVars, laterVars>>

NextExc ==
    \/ AppReturns
    \/ \E ex \in Exceptions : AppRaises(ex)

SpecExc == InitExc /\ [][NextExc]_vars

\* An assembled application whose graph is asked for the first time.
InitGraph ==
    /\ PermIdle
    /\ ExcIdle
    /\ AbortIdle
    /\ LaterIdle
    /\ graph_app \in GraphApps
    /\ graph_pc = "application"
    /\ cursor = 0
    /\ graph = EmptyGraph
    /\ exported = << >>

\* The builder adds the application node.
BuildApplication ==
    /\ graph_pc = "application"
    /\ graph' = add_application(graph, graph_app)
    /\ graph_pc' = "middleware"
    /\ cursor' = 1
    /\ UNCHANGED <<graph_app, exported>>
    /\ UNCHANGED <<permVars, excVars, abortVars, laterVars>>

\* The builder adds the next middleware of the application's stack, wrapped by
\* the node added before it.
BuildMiddleware ==
    /\ graph_pc = "middleware"
    /\ cursor <= Len(app_middleware(graph_app))
    /\ graph' = add_linked_node(graph, Len(graph.nodes), WRAPS, MIDDLEWARE,
                                app_middleware(graph_app)[cursor],
                                app_middleware(graph_app)[cursor], None)
    /\ cursor' = cursor + 1
    /\ UNCHANGED <<graph_app, graph_pc, exported>>
    /\ UNCHANGED <<permVars, excVars, abortVars, laterVars>>

\* The builder adds the router of the application below the last middleware.
BuildRouter ==
    /\ graph_pc = "middleware"
    /\ cursor > Len(app_middleware(graph_app))
    /\ graph' = add_linked_node(graph, Len(graph.nodes), DISPATCHES, ROUTER,
                                "app.router", "Router", None)
    /\ graph_pc' = "routes"
    /\ cursor' = 1
    /\ UNCHANGED <<graph_app, exported>>
    /\ UNCHANGED <<permVars, excVars, abortVars, laterVars>>

\* The id of the router node.
router_id == (CHOOSE n \in {graph.nodes[i] : i \in DOMAIN graph.nodes} :
                 n.kind = ROUTER).id

\* The builder adds the next route entry of the router, with what is below it.
BuildRoute ==
    /\ graph_pc = "routes"
    /\ cursor <= Len(graph_app.routes)
    /\ graph' = add_routes(graph, router_id, <<graph_app.routes[cursor]>>, 1)
    /\ cursor' = cursor + 1
    /\ UNCHANGED <<graph_app, graph_pc, exported>>
    /\ UNCHANGED <<permVars, excVars, abortVars, laterVars>>

\* app.graph returns the graph.
BuildDone ==
    /\ graph_pc = "routes"
    /\ cursor > Len(graph_app.routes)
    /\ graph_pc' = "built"
    /\ UNCHANGED <<graph_app, cursor, graph, exported>>
    /\ UNCHANGED <<permVars, excVars, abortVars, laterVars>>

\* graph.to_dict()
ToDict ==
    /\ graph_pc = "built"
    /\ exported = << >>
    /\ exported' = <<to_dict(graph)>>
    /\ UNCHANGED <<graph_app, graph_pc, cursor, graph>>
    /\ UNCHANGED <<permVars, excVars, abortVars, laterVars>>

NextGraph ==
    \/ BuildApplication
    \/ BuildMiddleware
    \/ BuildRouter
    \/ BuildRoute
    \/ BuildDone
    \/ ToDict

SpecGraph == InitGraph /\ [][NextGraph]_vars

\* client.get(path): the handler of the route is called.
InitAbort ==
    /\ PermIdle
    /\ ExcIdle
    /\ GraphIdle
    /\ LaterIdle
    /\ body \in HandlerBodies
    /\ handler_pc = 1
    /\ executed = << >>
    /\ handler_raised = << >>
    /\ handler_state = "running"
    /\ client_response = NoResponse

\* The handler is at a statement of the given kind.
at_statement(op) ==
    /\ handler_state = "running"
    /\ handler_pc <= Len(body)
    /\ body[handler_pc].op = op

\* The handler executes a call of abort: the call raises.
ExecuteAbort ==
    /\ at_statement("abort")
    /\ executed' = Append(executed, handler_pc)
    /\ handler_raised' = <<abort_call(body[handler_pc].status_code,
                                      body[handler_pc].detail,
                                      body[handler_pc].headers)>>
    /\ handler_state' = "raised"
    /\ UNCHANGED <<body, handler_pc, client_response>>
    /\ UNCHANGED <<permVars, excVars, graphVars, laterVars>>

\* The handler executes "raise HTTPException(status_code=..., response=response)".
ExecuteRaise ==
    /\ at_statement("raise")
    /\ executed' = Append(executed, handler_pc)
    /\ handler_raised' =
           <<HTTPException_with_response(
                 body[handler_pc].status_code, None,
                 [status_code |-> body[handler_pc].status_code,
                  detail |-> body[handler_pc].detail,
                  headers |-> body[handler_pc].headers])>>
    /\ handler_state' = "raised"
    /\ UNCHANGED <<body, handler_pc, client_response>>
    /\ UNCHANGED <<permVars, excVars, graphVars, laterVars>>

\* The handler executes a statement that neither raises nor returns.
ExecuteAssign ==
    /\ at_statement("assign")
    /\ executed' = Append(executed, handler_pc)
    /\ handler_pc' = handler_pc + 1
    /\ UNCHANGED <<body, handler_raised, handler_state, client_response>>
    /\ UNCHANGED <<permVars, excVars, graphVars, laterVars>>

\* The handler executes a return statement.
ExecuteReturn ==
    /\ at_statement("return")
    /\ executed' = Append(executed, handler_pc)
    /\ handler_state' = "returned"
    /\ UNCHANGED <<body, handler_pc, handler_raised, client_response>>
    /\ UNCHANGED <<permVars, excVars, graphVars, laterVars>>

\* The handler reaches the end of its body and returns None.
ReturnNone ==
    /\ handler_state = "running"
    /\ handler_pc > Len(body)
    /\ handler_state' = "returned"
    /\ UNCHANGED <<body, handler_pc, executed, handler_raised, client_response>>
    /\ UNCHANGED <<permVars, excVars, graphVars, laterVars>>

\* The exception that left the handler is answered.
SendExceptionResponse ==
    /\ handler_state = "raised"
    /\ client_response' = exception_response(handler_raised[1])
    /\ handler_state' = "responded"
    /\ UNCHANGED <<body, handler_pc, executed, handler_raised>>
    /\ UNCHANGED <<permVars, excVars, graphVars, laterVars>>

\* What the handler returned is sent as a 200 response.
SendHandlerResponse ==
    /\ handler_state = "returned"
    /\ client_response' =
           [status_code |-> HTTP_200_OK,
            detail |-> IF handler_pc <= Len(body) THEN body[handler_pc].detail ELSE None]
    /\ handler_state' = "responded"
    /\ UNCHANGED <<body, handler_pc, executed, handler_raised>>
    /\ UNCHANGED <<permVars, excVars, graphVars, laterVars>>

NextAbort ==
    \/ ExecuteAbort
    \/ ExecuteRaise
    \/ ExecuteAssign
    \/ ExecuteReturn
    \/ ReturnNone
    \/ SendExceptionResponse
    \/ SendHandlerResponse

SpecAbort == InitAbort /\ [][NextAbort]_vars

\* AsyncExitStackMiddleware(app, config, debug): one instance, no call yet.
InitStack ==
    /\ PermIdle
    /\ ExcIdle
    /\ GraphIdle
    /\ AbortIdle
    /\ CommandIdle
    /\ AuthIdle
    /\ CqrsIdle
    /\ mw_debug \in BOOLEAN
    /\ call_pc = [c \in Calls |-> "idle"]
    /\ scopes = [c \in Calls |-> new_scope]
    /\ lazy_stack = [c \in Calls |-> << >>]
    /\ exception = [c \in Calls |-> << >>]
    /\ lazy_stacks = << >>
    /\ exit_stacks = << >>
    /\ registered = [c \in Calls |-> << >>]
    /\ app_result = [c \in Calls |-> pending]
    /\ aclose_calls = [c \in Calls |-> 0]
    /\ ran = [c \in Calls |-> << >>]
    /\ printed = [c \in Calls |-> FALSE]
    /\ call_outcome = [c \in Calls |-> pending]

otherThanStack == <<permVars, excVars, graphVars, abortVars, commandVars,
                    authVars, cqrsVars>>

\* __call__ up to the await of the wrapped app: exception = None, a new lazy
\* stack, installed in the scope of the call.
Call(c) ==
    /\ call_pc[c] = "idle"
    /\ lazy_stacks' = Append(lazy_stacks, LazyAsyncExitStack)
    /\ lazy_stack' = [lazy_stack EXCEPT ![c] = <<Len(lazy_stacks')>>]
    /\ scopes' = [scopes EXCEPT ![c] = install(@, Len(lazy_stacks'))]
    /\ exception' = [exception EXCEPT ![c] = << >>]
    /\ call_pc' = [call_pc EXCEPT ![c] = "app"]
    /\ UNCHANGED <<mw_debug, exit_stacks, registered, app_result, aclose_calls,
                   ran, printed, call_outcome>>
    /\ UNCHANGED otherThanStack

\* The wrapped app takes the stack from its scope and pushes a callback.
AppPushes(c, fails) ==
    /\ call_pc[c] = "app"
    /\ Len(registered[c]) < MaxCallbacks
    /\ LET callback == Callback(c, Len(registered[c]) + 1, fails)
           heap == LazyAsyncExitStack_push_async_callback(
                       [lazy |-> lazy_stacks, exit |-> exit_stacks],
                       scopes[c].context_name[1], callback)
       IN  /\ lazy_stacks' = heap.lazy
           /\ exit_stacks' = heap.exit
           /\ registered' = [registered EXCEPT ![c] = Append(@, callback)]
    /\ UNCHANGED <<mw_debug, call_pc, scopes, lazy_stack, exception, app_result,
                   aclose_calls, ran, printed, call_outcome>>
    /\ UNCHANGED otherThanStack

\* The wrapped app returns.
StackAppReturns(c) ==
    /\ call_pc[c] = "app"
    /\ app_result' = [app_result EXCEPT ![c] = returns]
    /\ call_pc' = [call_pc EXCEPT ![c] = after_app(returns)]
    /\ UNCHANGED <<mw_debug, scopes, lazy_stack, exception, lazy_stacks,
                   exit_stacks, registered, aclose_calls, ran, printed,
                   call_outcome>>
    /\ UNCHANGED otherThanStack

\* The wrapped app raises: "except Exception as e" keeps the exception when it
\* derives from Exception; any other exception goes on through the finally.
StackAppRaises(c, ex) ==
    /\ call_pc[c] = "app"
    /\ app_result' = [app_result EXCEPT ![c] = raises(ex)]
    /\ exception' = [exception EXCEPT ![c] = IF caught(ex) THEN <<ex>> ELSE << >>]
    /\ call_pc' = [call_pc EXCEPT ![c] = after_app(raises(ex))]
    /\ UNCHANGED <<mw_debug, scopes, lazy_stack, lazy_stacks, exit_stacks,
                   registered, aclose_calls, ran, printed, call_outcome>>
    /\ UNCHANGED otherThanStack

\* finally: await lazy_stack.aclose(). An exception raised by the cleanup
\* leaves the middleware; so does, after the cleanup, an exception of the app
\* that was not caught.
Aclose(c) ==
    /\ call_pc[c] = "finally"
    /\ LET closed == LazyAsyncExitStack_aclose(
                         [lazy |-> lazy_stacks, exit |-> exit_stacks],
                         lazy_stack[c][1])
           escaping == app_result[c].kind = "raised" /\ exception[c] = << >>
       IN  /\ lazy_stacks' = closed.heap.lazy
           /\ exit_stacks' = closed.heap.exit
           /\ ran' = [ran EXCEPT ![c] = @ \o closed.ran]
           /\ aclose_calls' = [aclose_calls EXCEPT ![c] = @ + 1]
           /\ IF closed.error # << >>
              THEN /\ call_outcome' = [call_outcome EXCEPT ![c] = raises(closed.error[1])]
                   /\ call_pc' = [call_pc EXCEPT ![c] = "done"]
              ELSE IF escaping
              THEN /\ call_outcome' = [call_outcome EXCEPT ![c] = app_result[c]]
                   /\ call_pc' = [call_pc EXCEPT ![c] = "done"]
              ELSE /\ call_pc' = [call_pc EXCEPT ![c] = "after"]
                   /\ UNCHANGED call_outcome
    /\ UNCHANGED <<mw_debug, scopes, lazy_stack, exception, registered,
                   app_result, printed>>
    /\ UNCHANGED otherThanStack

\* The statements after the finally clause.
Finish(c) ==
    /\ call_pc[c] = "after"
    /\ LET end == finish(mw_debug, exception[c])
       IN  /\ printed' = [printed EXCEPT ![c] = end.printed]
           /\ call_outcome' = [call_outcome EXCEPT ![c] = end.outcome]
    /\ call_pc' = [call_pc EXCEPT ![c] = "done"]
    /\ UNCHANGED <<mw_debug, scopes, lazy_stack, exception, lazy_stacks,
                   exit_stacks, registered, app_result, aclose_calls, ran>>
    /\ UNCHANGED otherThanStack

NextStack ==
    \/ \E c \in Calls : Call(c)
    \/ \E c \in Calls, fails \in BOOLEAN : AppPushes(c, fails)
    \/ \E c \in Calls : StackAppReturns(c)
    \/ \E c \in Calls, ex \in AppExceptions : StackAppRaises(c, ex)
    \/ \E c \in Calls : Aclose(c)
    \/ \E c \in Calls : Finish(c)

SpecStack == InitStack /\ [][NextStack]_vars

\* create_app up to its loop: the command was given names and options, the
\* options of directive.handle are built, nothing is handled yet.
InitCommand ==
    /\ PermIdle
    /\ ExcIdle
    /\ GraphIdle
    /\ AbortIdle
    /\ StackIdle
    /\ AuthIdle
    /\ CqrsIdle
    /\ names \in SeqsUpTo(AppNames, MaxNames)
    /\ \E secret_key \in SecretKeys, with_basic_controller \in BOOLEAN,
          context \in BOOLEAN :
            options = create_app_options(secret_key, with_basic_controller, context)
    /\ name_pc = 1
    /\ handle_calls = << >>
    /\ messages = << >>
    /\ command_state = "running"

otherThanCommand == <<permVars, excVars, graphVars, abortVars, stackVars,
                      authVars, cqrsVars>>

\* One turn of "for name in names": directive.handle is called for the name
\* and ends in one of its ways.
HandleName(end) ==
    /\ command_state = "running"
    /\ name_pc <= Len(names)
    /\ LET name == names[name_pc]
           turn == loop_body(name, end)
       IN  /\ handle_calls' = Append(handle_calls,
                   [kind |-> "app", name |-> name, options |-> options, end |-> end])
           /\ messages' = messages \o turn.printed
           /\ IF turn.continues
              THEN name_pc' = name_pc + 1 /\ UNCHANGED command_state
              ELSE command_state' = "raised" /\ UNCHANGED name_pc
    /\ UNCHANGED <<names, options>>
    /\ UNCHANGED otherThanCommand

\* The loop is over: create_app returns.
CommandReturns ==
    /\ command_state = "running"
    /\ name_pc > Len(names)
    /\ command_state' = "returned"
    /\ UNCHANGED <<names, options, name_pc, handle_calls, messages>>
    /\ UNCHANGED otherThanCommand

NextCommand ==
    \/ \E end \in HandleEnds : HandleName(end)
    \/ CommandReturns

SpecCommand == InitCommand /\ [][NextCommand]_vars

\* create_client(routes=..., middleware=...): one of the applications of the
\* tests, no request sent yet.
InitAuth ==
    /\ PermIdle
    /\ ExcIdle
    /\ GraphIdle
    /\ AbortIdle
    /\ StackIdle
    /\ CommandIdle
    /\ CqrsIdle
    /\ auth_app \in AuthApps
    /\ auth_log = << >>

otherThanAuth == <<permVars, excVars, graphVars, abortVars, stackVars,
                   commandVars, cqrsVars>>

\* The client sends a GET request and receives the response.
ClientGet(path, allow_all) ==
    /\ auth_app # << >>
    /\ Len(auth_log) < MaxExchanges
    /\ LET exchange == auth_get(auth_app, path, allow_all)
       IN  auth_log' = Append(auth_log,
               [path |-> path, allow_all |-> allow_all,
                response |-> exchange.response, reached |-> exchange.reached,
                user |-> exchange.user])
    /\ UNCHANGED auth_app
    /\ UNCHANGED otherThanAuth

NextAuth == \E path \in AuthPaths, allow_all \in AllowAllValues : ClientGet(path, allow_all)

SpecAuth == InitAuth /\ [][NextAuth]_vars

\* build_app(), or the application of the default buses: the handlers are
\* registered, the store is empty, no request sent yet.
InitCqrs ==
    /\ PermIdle
    /\ ExcIdle
    /\ GraphIdle
    /\ AbortIdle
    /\ StackIdle
    /\ CommandIdle
    /\ AuthIdle
    /\ cqrs_app \in CqrsApps
    /\ store = empty_store
    /\ cqrs_log = << >>

otherThanCqrs == <<permVars, excVars, graphVars, abortVars, stackVars,
                   commandVars, authVars>>

\* client.post: the endpoint dispatches the command on the command bus.
ClientPost(key, value) ==
    /\ cqrs_app # << >>
    /\ Len(cqrs_log) < MaxExchanges
    /\ LET exchange == post_endpoint(cqrs_app, store, key, value)
       IN  /\ store' = exchange.store
           /\ cqrs_log' = Append(cqrs_log,
                   [op |-> "dispatch", key |-> key, value |-> value,
                    response |-> exchange.response])
    /\ UNCHANGED cqrs_app
    /\ UNCHANGED otherThanCqrs

\* client.get: the endpoint asks the query on the query bus.
ClientAsk(key) ==
    /\ cqrs_app # << >>
    /\ Len(cqrs_log) < MaxExchanges
    /\ LET exchange == get_endpoint(cqrs_app, store, key)
       IN  cqrs_log' = Append(cqrs_log,
               [op |-> "ask", key |-> key, result |-> exchange.result,
                response |-> exchange.response])
    /\ UNCHANGED <<cqrs_app, store>>
    /\ UNCHANGED otherThanCqrs

NextCqrs ==
    \/ \E key \in StoreKeys, value \in StoreValues : ClientPost(key, value)
    \/ \E key \in StoreKeys : ClientAsk(key)

SpecCqrs == InitCqrs /\ [][NextCqrs]_vars

\* ------------------------------------------------------------- properties

\* The route of the handler has answered the client's request.
answered(handler) == responses[handler] # NoResponse

\* The request was allowed: the handler body ran and its 200 came back.
allowed(handler) ==
    responses[handler].status_code = HTTP_200_OK /\ handler \in was_reached

\* The request was rejected: an answer other than 200, the handler body never ran.
rejected(handler) ==
    answered(handler) /\ responses[handler].status_code # HTTP_200_OK
    /\ handler \notin was_reached

\* What the has_permission of a class returns for the client's request.
grants(cls) == has_permission(cls, headers)

\* C1: with permissions [A & B] the request is allowed iff A.has_permission and
\* B.has_permission both return true, and rejected in the three other cases.
C1_AndAllowedIffBoth ==
    answered("and_ops") =>
        IF grants(Op1Permission) /\ grants(Op2Permission)
        THEN allowed("and_ops") ELSE rejected("and_ops")

C1_Witness ==
    /\ allowed("and_ops")
    /\ grants(Op1Permission) /\ grants(Op2Permission)

\* C2: with permissions [A | B] the request is allowed iff at least one of
\* A.has_permission and B.has_permission returns true, rejected only when both
\* return false.
C2_OrAllowedIffAny ==
    /\ answered("or_ops") =>
          IF grants(Op1Permission) \/ grants(Op2Permission)
          THEN allowed("or_ops") ELSE rejected("or_ops")
    /\ answered("MyController") =>
          IF grants(IsAdmin) \/ grants(IsSupport)
          THEN allowed("MyController") ELSE rejected("MyController")

C2_Witness ==
    /\ allowed("or_ops")
    /\ grants(Op1Permission) /\ ~grants(Op2Permission)

\* C3: with permissions [A ^ B] the request is allowed iff exactly one of
\* A.has_permission and B.has_permission returns true.
C3_XorAllowedIffExactlyOne ==
    answered("xor_ops") =>
        IF grants(Op1Permission) # grants(Op2Permission)
        THEN allowed("xor_ops") ELSE rejected("xor_ops")

C3_Witness ==
    /\ rejected("xor_ops")
    /\ grants(Op1Permission) /\ grants(Op2Permission)

\* C4: with permissions [A - B] (NOR) the request is allowed iff neither
\* A.has_permission nor B.has_permission returns true.
C4_NorAllowedIffNeither ==
    answered("nor_ops") =>
        IF ~grants(Op1Permission) /\ ~grants(Op2Permission)
        THEN allowed("nor_ops") ELSE rejected("nor_ops")

C4_Witness ==
    /\ rejected("nor_ops")
    /\ grants(Op1Permission) /\ ~grants(Op2Permission)

\* C5: with permissions [~X] the request is allowed iff X rejects it, X being a
\* single permission, A & B or A | B: the negation applies to the decision of
\* the whole operand; a route that carries X itself answers the opposite.
C5_NotAllowedIffOperandRejects ==
    /\ answered("not_ops") =>
          IF ~grants(Op1Permission)
          THEN allowed("not_ops") ELSE rejected("not_ops")
    /\ answered("inverted_and_ops") =>
          IF ~(grants(Op1Permission) /\ grants(Op2Permission))
          THEN allowed("inverted_and_ops") ELSE rejected("inverted_and_ops")
    /\ answered("inverted_or_ops") =>
          IF ~(grants(Op1Permission) \/ grants(Op2Permission))
          THEN allowed("inverted_or_ops") ELSE rejected("inverted_or_ops")
    /\ \A pair \in {<<"not_ops", "single_op">>, <<"inverted_and_ops", "and_ops">>,
                    <<"inverted_or_ops", "or_ops">>} :
          answered(pair[1]) /\ answered(pair[2]) =>
              (allowed(pair[1]) <=> rejected(pair[2]))

C5_Witness ==
    /\ allowed("inverted_and_ops") /\ rejected("and_ops")
    /\ grants(Op1Permission) /\ ~grants(Op2Permission)

\* C6: with several entries in the permissions list the request is allowed iff
\* every entry grants it; a granting entry never makes up for a denying one.
C6_ListIsConjunction ==
    /\ answered("and_plus_extra_ops") =>
          IF (grants(Op1Permission) /\ grants(Op2Permission)) /\ grants(Op3Permission)
          THEN allowed("and_plus_extra_ops") ELSE rejected("and_plus_extra_ops")
    /\ answered("or_plus_extra_ops") =>
          IF (grants(Op1Permission) \/ grants(Op2Permission)) /\ grants(Op3Permission)
          THEN allowed("or_plus_extra_ops") ELSE rejected("or_plus_extra_ops")
    /\ answered("not_plus_extra_ops") =>
          IF ~grants(Op1Permission) /\ grants(Op2Permission)
          THEN allowed("not_plus_extra_ops") ELSE rejected("not_plus_extra_ops")

C6_Witness ==
    /\ rejected("or_plus_extra_ops")
    /\ grants(Op1Permission) /\ ~grants(Op3Permission)

\* C7: a request the Ravyn permissions of the route reject is answered 403 with
\* detail "You do not have permission to perform this action.", a request they
\* grant is answered by the handler with 200, and there is no other outcome.
C7_DeniedIs403GrantedIs200 ==
    \A handler \in Handlers :
        answered(handler) /\ lilya_permissions_call(handler, headers) = "app" =>
            IF allow_connection(handler, headers)
            THEN /\ responses[handler].status_code = HTTP_200_OK
                 /\ handler \in was_reached
            ELSE /\ responses[handler].status_code = HTTP_403_FORBIDDEN
                 /\ responses[handler].detail =
                        "You do not have permission to perform this action."
                 /\ handler \notin was_reached

C7_Witness ==
    /\ responses["single_op"].status_code = HTTP_403_FORBIDDEN
    /\ responses["single_op"].detail =
           "You do not have permission to perform this action."
    /\ ~grants(Op1Permission)

\* C8: ~(A | B) and A - B take the same decision for every request.
C8_InvertedOrEqualsNor ==
    answered("inverted_or_ops") /\ answered("nor_ops") =>
        /\ responses["inverted_or_ops"] = responses["nor_ops"]
        /\ allowed("inverted_or_ops") <=> allowed("nor_ops")

C8_Witness ==
    /\ allowed("inverted_or_ops") /\ allowed("nor_ops")

\* C9: A | B takes the same decision whether the has_permission methods of its
\* operands are both synchronous, both asynchronous or one of each.
C9_SyncAsyncMixedAgree ==
    \A r1, r2 \in {"MyController", "MyControllerAsync", "MyControllerMixed"} :
        answered(r1) /\ answered(r2) =>
            /\ responses[r1] = responses[r2]
            /\ allowed(r1) <=> allowed(r2)

C9_Witness ==
    /\ allowed("MyControllerAsync") /\ allowed("MyControllerMixed")
    /\ ~grants(IsAdmin) /\ grants(AsyncIsSupport)

\* C10: declaring a handler whose permissions list holds a Ravyn permission and
\* a Lilya permission raises AssertionError, so the handler never becomes a
\* route and never answers a request.
C10_MixedListRaisesAtDeclaration ==
    /\ "mixed_same_level" \notin declared
    /\ ~answered("mixed_same_level")
    /\ "mixed_same_level" \notin was_reached
    /\ \A e \in raised : e.handler = "mixed_same_level" /\ e.exc = "AssertionError"

C10_Witness ==
    /\ [handler |-> "mixed_same_level", exc |-> "AssertionError"] \in raised
    /\ phase = "serving"
    /\ \E handler \in declared : answered(handler)

\* C11: a route whose handler or whose Include carries the Lilya permission that
\* always raises NotAuthorized answers every request with 401 and the detail
\* "Not Authorized.", whether the Ravyn permission of its Gateway or application
\* grants or denies the request, and the handler body never runs.
C11_LilyaDenyAnswers401 ==
    \A handler \in {"mix_permissions_with_native_ravyn", "include_routes"} :
        answered(handler) =>
            /\ responses[handler].status_code = HTTP_401_UNAUTHORIZED
            /\ responses[handler].detail = "Not Authorized."
            /\ handler \notin was_reached

C11_Witness ==
    /\ responses["include_routes"].status_code = HTTP_401_UNAUTHORIZED
    /\ responses["mix_permissions_with_native_ravyn"].status_code = HTTP_401_UNAUTHORIZED
    /\ grants(RavynPermission)

\* The wrapped app raised on an HTTP scope.
raised_on_http == app_raised # << >> /\ asgi_scope.type = "http"

\* The wrapper caught the exception of an HTTP call and answered it.
handled_http == raised_on_http /\ outcome = "returned"

\* The status code an exception is looked up under: its own status_code when it
\* is an HTTP exception, 500 otherwise.
lookup_status(ex) ==
    IF ex.lilya_http THEN ex.status_code ELSE HTTP_500_INTERNAL_SERVER_ERROR

\* The positions of the MRO whose class has a handler registered.
registered_positions(ex) ==
    { i \in DOMAIN ex.mro : ex.mro[i] \in DOMAIN self_exception_handlers.by_class }

\* C12: get_exception_handler returns the handler registered under the
\* exception's status code (its status_code for an HTTP exception, 500 for any
\* other) whenever there is one, even when a handler is registered for the
\* exception's class too; a handler keyed by class is returned only when no
\* status-code handler matches.
C12_StatusHandlerFirst ==
    handled_http =>
        LET ex == app_raised[1]
            by_status == self_exception_handlers.by_status
            by_class == self_exception_handlers.by_class
        IN  /\ lookup_status(ex) \in DOMAIN by_status =>
                  lookup = by_status[lookup_status(ex)]
            /\ (\E k \in DOMAIN by_class : lookup = by_class[k]) =>
                  lookup_status(ex) \notin DOMAIN by_status

C12_Witness ==
    /\ handled_http
    /\ app_raised[1] = PermissionDenied
    /\ DOMAIN self_exception_handlers.by_status = {HTTP_403_FORBIDDEN}
    /\ DOMAIN self_exception_handlers.by_class = {"PermissionDenied"}
    /\ lookup = self_exception_handlers.by_status[HTTP_403_FORBIDDEN]

\* C13: when no status-code handler matches, get_exception_handler returns the
\* handler of the first class of the exception's MRO that has one (a subclass
\* before its base, a base for the subclasses that have none), and None when no
\* class of the MRO has a handler or the map is empty.
C13_FirstClassOfMroWins ==
    handled_http =>
        LET ex == app_raised[1]
            hits == registered_positions(ex)
        IN  lookup_status(ex) \notin DOMAIN self_exception_handlers.by_status =>
                IF hits = {}
                THEN lookup = None
                ELSE lookup = self_exception_handlers.by_class[
                         ex.mro[CHOOSE i \in hits : \A j \in hits : i <= j]]

C13_Witness ==
    /\ handled_http
    /\ app_raised[1] = PermissionDenied
    /\ DOMAIN self_exception_handlers.by_status = {}
    /\ DOMAIN self_exception_handlers.by_class = {"HTTPException", "Exception"}
    /\ lookup = self_exception_handlers.by_class["HTTPException"]

\* C14 as stated: on an HTTP scope, whatever the wrapped app raises, the wrapper
\* sends exactly one response and returns; nothing raised by the app escapes.
C14_EveryRaiseAnswered ==
    raised_on_http => outcome = "returned" /\ Len(sent) = 1

\* C14: on an HTTP scope, when the wrapped app raises an exception that derives
\* from Exception, the wrapper sends exactly one response and returns without
\* raising, with or without a registered handler: when the lookup finds none, a
\* fallback handler (http_exception_handler or default_http_exception_handler)
\* is used.
C14_CaughtExceptionAnswered ==
    raised_on_http /\ (\E i \in DOMAIN app_raised[1].mro :
                           app_raised[1].mro[i] = "Exception") =>
        /\ outcome = "returned"
        /\ Len(sent) = 1
        /\ chosen # None
        /\ lookup # None => chosen = lookup
        /\ lookup = None =>
              chosen \in {"http_exception_handler", "default_http_exception_handler"}

C14_Witness ==
    /\ handled_http
    /\ app_raised[1] = ValueError
    /\ lookup = None
    /\ chosen = "default_http_exception_handler"
    /\ Len(sent) = 1

\* C15: the response create_exception_response builds carries the status_code,
\* detail and headers of an HTTP exception, and 500, repr(exc) and no headers
\* for any other exception; its status is the status_code of its body content.
C15_ExceptionResponseContent ==
    handled_http /\ chosen = "default_http_exception_handler"
        /\ ~(self_debug /\ lookup_status(app_raised[1]) = HTTP_500_INTERNAL_SERVER_ERROR) =>
        LET ex == app_raised[1]
            response == sent[1]
        IN  /\ IF ex.lilya_http \/ ex.ravyn_http
               THEN /\ response.status_code = ex.status_code
                    /\ response.detail = ex.detail
                    /\ response.headers = ex.headers
               ELSE /\ response.status_code = HTTP_500_INTERNAL_SERVER_ERROR
                    /\ response.detail = repr(ex)
                    /\ response.headers = None
            /\ response.status_code = response.content.status_code
            /\ response.detail = response.content.detail

C15_Witness ==
    /\ handled_http
    /\ chosen = "default_http_exception_handler"
    /\ app_raised[1] = Forbidden
    /\ sent[1].status_code = HTTP_403_FORBIDDEN
    /\ sent[1].headers = "X-Blocked: true"
    /\ sent[1].content.status_code = HTTP_403_FORBIDDEN

\* The graph of the application is complete.
graph_built == graph_pc = "built"

\* The nodes of the graph that stand for the object ref, with the given kind.
nodes_of(kind, ref) ==
    { i \in DOMAIN graph.nodes :
        graph.nodes[i].kind = kind /\ graph.nodes[i].ref = ref }

\* The route entries the application lists.
listed == { graph_app.routes[i] : i \in DOMAIN graph_app.routes }

\* C16: in graph.to_dict() every edge's source and every edge's target is the id
\* of a node of the exported node list.
C16_ExportedEdgesReferenceNodes ==
    exported # << >> =>
        LET data == exported[1]
            ids == { data.nodes[i].id : i \in DOMAIN data.nodes }
        IN  \A i \in DOMAIN data.edges :
                data.edges[i].source \in ids /\ data.edges[i].target \in ids

C16_Witness ==
    /\ exported # << >>
    /\ graph_app.routes = <<ping_gateway>>
    /\ Len(exported[1].edges) >= 3
    /\ \E i \in DOMAIN exported[1].nodes : exported[1].nodes[i].kind = ROUTE

\* C17: the graph keeps the order of declaration: the application's middleware
\* nodes are TrustedHostMiddleware and then the user's middleware in the order
\* given, the middleware chain of a route is in the order given on its Gateway,
\* and its permission chain in the order of its permissions list.
C17_DeclarationOrderPreserved ==
    graph_built =>
        /\ class_names(SelectSeq(layers_below(graph, 1), LAMBDA n : n.kind = MIDDLEWARE))
               = <<"TrustedHostMiddleware">> \o graph_app.middleware
        /\ \A entry \in listed :
               entry.type # "Include" =>
                   /\ class_names(route_middlewares(graph, route_by_path(graph, entry.path)))
                          = entry.middleware
                   /\ class_names(permissions_for(graph, route_by_path(graph, entry.path)))
                          = entry.permissions
        /\ graph_app.middleware = <<"MiddlewareA", "MiddlewareB">>
               /\ graph_app.routes = << >> =>
               class_names(by_kind(graph, MIDDLEWARE))
                   = <<"TrustedHostMiddleware", "MiddlewareA", "MiddlewareB">>
        /\ (\E entry \in listed : entry.path = "/with-mw") =>
               class_names(route_middlewares(graph, route_by_path(graph, "/with-mw")))
                   = <<"RouteMW1", "RouteMW2">>
        /\ (\E entry \in listed : entry.path = "/users/{id}") =>
               class_names(permissions_for(graph, route_by_path(graph, "/users/{id}")))
                   = <<"Allow", "Deny">>

C17_Witness ==
    /\ graph_built
    /\ graph_app.middleware = <<"MiddlewareB", "MiddlewareA">>
    /\ graph_app.routes = <<with_mw_gateway, users_gateway>>
    /\ class_names(by_kind(graph, MIDDLEWARE))
           = <<"TrustedHostMiddleware", "MiddlewareB", "MiddlewareA", "RouteMW1", "RouteMW2">>

\* C18: for a child application mounted through an Include the graph holds
\* exactly one include node, and each route of the child is exactly one of the
\* graph's route nodes.
C18_IncludeOnceChildRoutesOnce ==
    graph_built =>
        /\ \A entry \in listed :
               entry.type = "Include" /\ entry.app # None =>
                   /\ Cardinality(nodes_of(INCLUDE, entry.ref)) = 1
                   /\ \A j \in DOMAIN entry.routes :
                          Cardinality(nodes_of(ROUTE, entry.routes[j].ref)) = 1
        /\ Len(by_kind(graph, INCLUDE))
               = Cardinality({ entry \in listed : entry.type = "Include" })
        /\ child_include \in listed =>
               Len(SelectSeq(by_kind(graph, ROUTE), LAMBDA n : n.path = "/inner")) = 1

C18_Witness ==
    /\ graph_built
    /\ graph_app.routes = <<child_include>>
    /\ Len(by_kind(graph, INCLUDE)) = 1
    /\ Len(by_kind(graph, ROUTE)) = 1
    /\ by_kind(graph, ROUTE)[1].path = "/inner"

\* C19: the graph of an application holds exactly one APPLICATION node, whose
\* ref is the application, and exactly one ROUTER node when the application has
\* a single router (it mounts no child application).
C19_OneApplicationOneRouter ==
    graph_built =>
        /\ Len(by_kind(graph, APPLICATION)) = 1
        /\ by_kind(graph, APPLICATION)[1].ref = graph_app.ref
        /\ (\A entry \in listed : entry.app = None) =>
               Len(by_kind(graph, ROUTER)) = 1

C19_Witness ==
    /\ graph_built
    /\ graph_app.routes = << >>
    /\ graph_app.middleware = << >>
    /\ Len(by_kind(graph, APPLICATION)) = 1
    /\ Len(by_kind(graph, ROUTER)) = 1

\* The positions of the handler body that hold a call of abort.
abort_positions == { i \in DOMAIN body : body[i].op = "abort" }

\* The request was answered after the handler executed a call of abort.
aborted ==
    /\ handler_state = "responded"
    /\ executed # << >>
    /\ executed[Len(executed)] \in abort_positions

\* C20: a call of abort ends the handler: no statement after the call is ever
\* executed, and the response the client receives has the status code given to
\* abort.
C20_AbortEndsHandler ==
    /\ \A k \in DOMAIN executed : \A i \in abort_positions : executed[k] <= i
    /\ aborted =>
          client_response.status_code = body[executed[Len(executed)]].status_code
    /\ body = stop_handler /\ handler_state = "responded" =>
          /\ executed = <<1>>
          /\ client_response.status_code = HTTP_404_NOT_FOUND
          /\ client_response.detail = "Stop here"

C20_Witness ==
    /\ body = <<abort_404_stop_here, return_message>>
    /\ aborted
    /\ executed = <<1>>
    /\ client_response.status_code = HTTP_404_NOT_FOUND

\* The wrapped app raised on a scope that is not HTTP.
raised_on_websocket == app_raised # << >> /\ asgi_scope.type # "http"

\* The close event C27 describes for an exception.
close_event_of(ex) ==
    [type |-> "websocket.close",
     code |-> CASE ex.ws -> ex.code
                [] ~ex.ws /\ (ex.lilya_http \/ ex.ravyn_http) -> ex.status_code + 4000
                [] OTHER -> 4500,
     reason |-> IF ex.ws \/ ex.lilya_http \/ ex.ravyn_http THEN ex.detail ELSE repr(ex)]

\* C27 as stated: on a scope that is not HTTP, whatever the wrapped app raises,
\* the wrapper sends exactly one websocket.close event and does not raise.
C27_EveryRaiseClosed ==
    raised_on_websocket =>
        outcome = "returned" /\ sent = <<close_event_of(app_raised[1])>>

\* C27: on a scope that is not HTTP, when the wrapped app raises an exception
\* that derives from Exception, the wrapper sends exactly one websocket.close
\* event and returns; the code is the exception's code for a WebSocketException,
\* status_code + 4000 for another HTTP exception and 4500 otherwise, the reason
\* its detail in the first two cases and repr(exc) in the last.
C27_CaughtExceptionClosed ==
    raised_on_websocket /\ (\E i \in DOMAIN app_raised[1].mro :
                                app_raised[1].mro[i] = "Exception") =>
        outcome = "returned" /\ sent = <<close_event_of(app_raised[1])>>

C27_Witness ==
    /\ raised_on_websocket
    /\ app_raised[1] = PermissionDenied
    /\ outcome = "returned"
    /\ Len(sent) = 1
    /\ sent[1].code = 4403

\* C28: on an HTTP scope a registered handler found by the lookup is the one
\* used; when none is found, http_exception_handler is used iff the scope
\* carries _ravyn_route_boundary and the exception is an HTTP exception, and
\* default_http_exception_handler in every remaining case.
C28_HandlerChoice ==
    handled_http =>
        LET ex == app_raised[1]
        IN  /\ lookup # None => chosen = lookup
            /\ lookup = None =>
                  IF asgi_scope._ravyn_route_boundary /\ (ex.lilya_http \/ ex.ravyn_http)
                  THEN chosen = "http_exception_handler"
                  ELSE chosen = "default_http_exception_handler"

C28_Witness ==
    /\ handled_http
    /\ lookup = None
    /\ ~asgi_scope._ravyn_route_boundary
    /\ app_raised[1] = LilyaNotFound
    /\ chosen = "default_http_exception_handler"

\* C29: default_http_exception_handler returns the debug (traceback) response
\* only when debug is enabled and the exception resolves to status 500; with
\* debug disabled, or for another status, it returns the JSON exception response.
C29_DebugResponseOnlyFor500 ==
    handled_http /\ chosen = "default_http_exception_handler" =>
        IF self_debug /\ lookup_status(app_raised[1]) = HTTP_500_INTERNAL_SERVER_ERROR
        THEN sent[1].media_type = "text/plain" /\ sent[1].detail = "Traceback"
        ELSE /\ sent[1].media_type = "application/json"
             /\ sent[1].status_code = lookup_status(app_raised[1])

C29_Witness ==
    /\ handled_http
    /\ chosen = "default_http_exception_handler"
    /\ self_debug
    /\ app_raised[1] = Forbidden
    /\ sent[1].media_type = "application/json"
    /\ sent[1].status_code = HTTP_403_FORBIDDEN

\* C23: on every path of a call, lazy_stack.aclose() is awaited exactly once:
\* not before the wrapped app ended, whether it returned or raised, and before
\* the middleware returns or raises.
C23_AcloseOnceAfterApp ==
    \A c \in Calls :
        /\ call_pc[c] \in {"idle", "app", "finally"} => aclose_calls[c] = 0
        /\ call_pc[c] \in {"after", "done"} => aclose_calls[c] = 1
        /\ aclose_calls[c] > 0 => app_result[c] # pending
        /\ call_outcome[c] # pending => aclose_calls[c] = 1

C23_Witness ==
    /\ call_pc["first"] = "done"
    /\ app_result["first"] = raises(ValueError)
    /\ aclose_calls["first"] = 1
    /\ call_pc["second"] = "done"
    /\ app_result["second"] = returns
    /\ aclose_calls["second"] = 1

\* A callback run by the cleanup of the call raised.
cleanup_failed(c) == \E i \in DOMAIN ran[c] : ran[c][i].fails

\* How the middleware ends when it ends as the wrapped app did.
as_the_app(c) ==
    /\ app_result[c].kind = "raised" => call_outcome[c] = app_result[c]
    /\ app_result[c] = returns => call_outcome[c] = returns

stacks_made_by(lazy) == { i \in DOMAIN exit_stacks : exit_stacks[i].made_by = lazy }

\* C25: a lazy stack has constructed no AsyncExitStack while it was never
\* accessed, and exactly one since its first access, which every later access
\* used; aclose() on a lazy stack never accessed creates none and runs nothing.
C25_StackCreatedOnFirstAccessOnly ==
    \A c \in Calls : lazy_stack[c] # << >> =>
        LET self == lazy_stack[c][1]
        IN  IF registered[c] = << >>
            THEN /\ lazy_stacks[self]._stack = << >>
                 /\ stacks_made_by(self) = {}
                 /\ ran[c] = << >>
            ELSE /\ lazy_stacks[self]._stack # << >>
                 /\ stacks_made_by(self) = {lazy_stacks[self]._stack[1]}
                 /\ aclose_calls[c] = 0 =>
                        exit_stacks[lazy_stacks[self]._stack[1]].callbacks = registered[c]

C25_Witness ==
    /\ call_pc["first"] = "done"
    /\ registered["first"] = << >>
    /\ aclose_calls["first"] = 1
    /\ exit_stacks # << >>
    /\ Len(registered["second"]) = MaxCallbacks
    /\ Cardinality(stacks_made_by(lazy_stack["second"][1])) = 1

\* C26: every call in flight has a lazy stack of its own in its scope, and the
\* cleanup of a call runs the callbacks pushed during that call, all of them
\* and no other.
C26_CallbacksRunByOwnCleanup ==
    /\ \A c \in Calls : call_pc[c] # "idle" =>
            /\ scopes[c].context_name = lazy_stack[c]
            /\ lazy_stack[c] # << >>
    /\ \A c, d \in Calls :
            c # d /\ call_pc[c] # "idle" /\ call_pc[d] # "idle" =>
                scopes[c].context_name # scopes[d].context_name
    /\ \A c \in Calls : \A i \in DOMAIN ran[c] : ran[c][i].owner = c
    /\ \A c \in Calls : aclose_calls[c] > 0 => ran[c] = Reverse(registered[c])

C26_Witness ==
    /\ lazy_stack["second"] = <<1>>
    /\ call_pc["second"] = "app"
    /\ registered["second"] # << >>
    /\ lazy_stack["first"] = <<2>>
    /\ call_pc["first"] = "done"
    /\ Len(ran["first"]) = MaxCallbacks

\* The message create_app prints for a call of directive.handle that it
\* survives.
message_for(call) ==
    IF call.end = "generated"
    THEN success(" App " \o call.name \o " generated successfully!")
    ELSE error(DirectiveError_str(call.name))

\* The calls of directive.handle that ended by generating the app or by a
\* DirectiveError.
survived == SelectSeq(handle_calls, LAMBDA call : call.end # "OSError")

\* C30: directive.handle is called for the given names in their order, once
\* each; every call that generates the app or raises DirectiveError prints
\* exactly one message, a success or the error, and the loop goes on: the
\* command returns only once every name was handled, and never stops at a
\* DirectiveError.
C30_EveryNameOnceInOrder ==
    /\ Len(handle_calls) <= Len(names)
    /\ \A i \in DOMAIN handle_calls :
            /\ handle_calls[i].name = names[i]
            /\ handle_calls[i].options = options
    /\ Len(messages) = Len(survived)
    /\ \A i \in DOMAIN messages : messages[i] = message_for(survived[i])
    /\ command_state = "returned" =>
            /\ Len(handle_calls) = Len(names)
            /\ Len(messages) = Len(names)
    /\ command_state = "raised" =>
            handle_calls[Len(handle_calls)].end = "OSError"
    /\ command_state = "running" => name_pc = Len(handle_calls) + 1

C30_Witness ==
    /\ command_state = "returned"
    /\ Len(names) = MaxNames
    /\ handle_calls[1].end = "DirectiveError"
    /\ handle_calls[Len(names)].end = "generated"
    /\ messages[1].level = "error"
    /\ messages[Len(names)].level = "success"

writes_before(j, key) ==
    { i \in 1..(j - 1) : cqrs_log[i].op = "dispatch" /\ cqrs_log[i].key = key }

\* C22 as stated: a query returns the value of every earlier command that
\* wrote its key, and None, reported as 404, when no earlier command did.
C22_QueryReturnsEveryWrittenValue ==
    \A j \in DOMAIN cqrs_log : cqrs_log[j].op = "ask" =>
        /\ \A i \in writes_before(j, cqrs_log[j].key) :
               cqrs_log[j].result = cqrs_log[i].value
        /\ writes_before(j, cqrs_log[j].key) = {} =>
               /\ cqrs_log[j].result = None
               /\ cqrs_log[j].response.status_code = HTTP_404_NOT_FOUND

\* C22: after any sequence of dispatches and queries, a query for a key
\* returns the value of the latest earlier command that wrote the key, and
\* None, reported as 404, when no earlier command wrote it.
C22_QueryReturnsLatestWrittenValue ==
    \A j \in DOMAIN cqrs_log : cqrs_log[j].op = "ask" =>
        LET writes == writes_before(j, cqrs_log[j].key)
        IN  IF writes = {}
            THEN /\ cqrs_log[j].result = None
                 /\ cqrs_log[j].response = not_found
            ELSE LET latest == CHOOSE i \in writes : \A k \in writes : k <= i
                 IN  /\ cqrs_log[j].result = cqrs_log[latest].value
                     /\ cqrs_log[j].response.status_code = HTTP_200_OK

C22_Witness ==
    /\ Len(cqrs_log) = 3
    /\ cqrs_log[1].op = "dispatch" /\ cqrs_log[1].key = "u1"
    /\ cqrs_log[2].op = "dispatch" /\ cqrs_log[2].key = "u1"
    /\ cqrs_log[2].value # cqrs_log[1].value
    /\ cqrs_log[3].op = "ask" /\ cqrs_log[3].key = "u1"
    /\ cqrs_log[3].result = cqrs_log[2].value

====
